---- MODULE Spec2Model ----
(***************************************************************************)
(* A model of the storage engine of Tiny KV Store Pro                      *)
(* (src/tiny-kv-store-pro.js, class TinyKVStorePro and the Crypto and      *)
(* Compression modules it uses).                                           *)
(*                                                                         *)
(* Texts (keys and string values) are sequences of character codes.  A     *)
(* JavaScript Map is a sequence of [key, entry] records in insertion       *)
(* order, which is the order the code enumerates and evicts in.  Time is   *)
(* Date.now() in milliseconds.  localStorage is one item (blob) and a flag  *)
(* telling whether setItem throws (storageFull).  The counters of          *)
(* this.stats never decide what a call does: a specification that does not *)
(* read them starts from StatsOff and its calls leave them out.  The       *)
(* latencies and timestamps lists of this.stats (performance.now()) are    *)
(* not part of the state modelled here.                                    *)
(***************************************************************************)
EXTENDS Integers, Sequences, FiniteSets, TLC

\* ------------------------------------------------------------------ bounds
MaxTicks == 3        \* seconds of wall-clock time the model lets pass
MaxTTL == 2          \* largest ttl (seconds) passed to put
MaxWal == 3          \* records the in-memory write log may reach by client calls
MaxTimers == 2       \* deferred deletions that may be pending at once
MaxCacheSize == 2    \* largest cache capacity the engine is configured with
MaxBatch == 3        \* longest operation list handed to batch
MaxQueries == 2      \* advancedQuery calls between two clears
MaxGets == 2         \* get calls between two resets of the counters
MaxKeys == 5         \* keys the store holds when the queries run
MaxCount == 2        \* largest page size handed to scan
MaxLimit == 3        \* largest limit handed to keysBySize

\* ------------------------------------------------------- program constants
MsPerSecond == 1000  \* options.ttl * 1000
DefaultCacheSize == 100  \* this.cacheSize = 100
WalTail == 1000      \* this.wal.slice(-1000)
KeyCodes == <<100, 101, 102, 97, 117, 108, 116, 75, 101, 121>>  \* 'defaultKey'

\* --------------------------------------------------------------- JS values
Str(s) == [t |-> "string", s |-> s]
Null == [t |-> "null", s |-> <<>>]
Undefined == [t |-> "undefined", s |-> <<>>]
IsString(v) == v.t = "string"
Num(n) == [t |-> "number", s |-> <<n>>]
Bool(b) == [t |-> "boolean", s |-> <<b>>]
Arr(items) == [t |-> "array", s |-> items]
Obj(members) == [t |-> "object", s |-> members]   \* members: <<[name, val], ...>>

\* what if (v) takes: null, undefined, '', 0 and false are falsy
Truthy(v) ==
    IF v.t \in {"null", "undefined"} THEN FALSE
    ELSE IF v.t = "string" THEN v.s # <<>>
    ELSE IF v.t = "number" THEN v.s[1] # 0
    ELSE IF v.t = "boolean" THEN v.s[1]
    ELSE TRUE

\* ------------------------------------------------------------------- texts
Min(a, b) == IF a < b THEN a ELSE b
Repeat(c, n) == [i \in 1..n |-> c]
IsDigit(c) == c >= 48 /\ c <= 57

RECURSIVE Digits(_)
\* the decimal text of a natural number, as template literals print it
Digits(n) == IF n < 10 THEN <<48 + n>> ELSE Digits(n \div 10) \o <<48 + (n % 10)>>

RECURSIVE ParseInt(_, _)
\* parseInt of a text made of digits only (acc is the value read so far)
ParseInt(ds, acc) ==
    IF ds = <<>> THEN acc ELSE ParseInt(Tail(ds), 10 * acc + (Head(ds) - 48))

RECURSIVE Xor(_, _)
\* bitwise exclusive or of two naturals
Xor(a, b) ==
    IF a = 0 THEN b
    ELSE IF b = 0 THEN a
    ELSE (((a % 2) + (b % 2)) % 2) + 2 * Xor(a \div 2, b \div 2)

RECURSIVE Split(_, _)
\* text.split(sep) for a separator of one character
Split(text, sep) ==
    IF \A i \in 1..Len(text) : text[i] # sep THEN <<text>>
    ELSE LET i == CHOOSE j \in 1..Len(text) :
                      text[j] = sep /\ \A h \in 1..(j - 1) : text[h] # sep
         IN  <<SubSeq(text, 1, i - 1)>> \o Split(SubSeq(text, i + 1, Len(text)), sep)

RECURSIVE Join(_, _)
\* lines.join(sep)
Join(lines, sep) ==
    IF lines = <<>> THEN <<>>
    ELSE IF Len(lines) = 1 THEN lines[1]
    ELSE (lines[1] \o sep) \o Join(Tail(lines), sep)

\* white space and line terminators of the texts modelled
IsSpace(c) == c \in {9, 10, 11, 12, 13, 32}

RECURSIVE Trim(_)
\* text.trim()
Trim(text) ==
    IF text = <<>> THEN text
    ELSE IF IsSpace(Head(text)) THEN Trim(Tail(text))
    ELSE IF IsSpace(text[Len(text)]) THEN Trim(SubSeq(text, 1, Len(text) - 1))
    ELSE text

\* text.replace(/^"|"$/g, ''): a quote at the start and a quote at the end
StripQuotes(text) ==
    LET a == IF text # <<>> /\ Head(text) = 34 THEN Tail(text) ELSE text
    IN  IF a # <<>> /\ a[Len(a)] = 34 THEN SubSeq(a, 1, Len(a) - 1) ELSE a

\* ------------------------------------------------------------ Crypto module
XorText(text) ==
    [i \in 1..Len(text) |-> Xor(text[i], KeyCodes[((i - 1) % Len(KeyCodes)) + 1])]

\* the base64 character of a 6-bit value
B64Char(n) ==
    IF n < 26 THEN 65 + n
    ELSE IF n < 52 THEN 97 + (n - 26)
    ELSE IF n < 62 THEN 48 + (n - 52)
    ELSE IF n = 62 THEN 43 ELSE 47

\* the 6-bit value of a base64 character, -1 for any other character
B64Val(c) ==
    IF c >= 65 /\ c <= 90 THEN c - 65
    ELSE IF c >= 97 /\ c <= 122 THEN c - 97 + 26
    ELSE IF c >= 48 /\ c <= 57 THEN c - 48 + 52
    ELSE IF c = 43 THEN 62
    ELSE IF c = 47 THEN 63 ELSE -1

RECURSIVE Btoa(_)
Btoa(b) ==
    IF Len(b) = 0 THEN <<>>
    ELSE IF Len(b) = 1 THEN
        <<B64Char(b[1] \div 4), B64Char((b[1] % 4) * 16), 61, 61>>
    ELSE IF Len(b) = 2 THEN
        <<B64Char(b[1] \div 4), B64Char((b[1] % 4) * 16 + b[2] \div 16),
          B64Char((b[2] % 16) * 4), 61>>
    ELSE
        <<B64Char(b[1] \div 4), B64Char((b[1] % 4) * 16 + b[2] \div 16),
          B64Char((b[2] % 16) * 4 + b[3] \div 64), B64Char(b[3] % 64)>>
        \o Btoa(SubSeq(b, 4, Len(b)))

\* atob: the text with its padding removed, when its length is a multiple of 4
StripPad(s) ==
    IF Len(s) % 4 = 0 /\ Len(s) > 0 /\ s[Len(s)] = 61 THEN
        IF s[Len(s) - 1] = 61 THEN SubSeq(s, 1, Len(s) - 2)
        ELSE SubSeq(s, 1, Len(s) - 1)
    ELSE s

RECURSIVE AtobBytes(_)
AtobBytes(s) ==
    IF Len(s) < 2 THEN <<>>
    ELSE IF Len(s) = 2 THEN
        <<B64Val(s[1]) * 4 + B64Val(s[2]) \div 16>>
    ELSE IF Len(s) = 3 THEN
        <<B64Val(s[1]) * 4 + B64Val(s[2]) \div 16,
          (B64Val(s[2]) % 16) * 16 + B64Val(s[3]) \div 4>>
    ELSE
        <<B64Val(s[1]) * 4 + B64Val(s[2]) \div 16,
          (B64Val(s[2]) % 16) * 16 + B64Val(s[3]) \div 4,
          (B64Val(s[3]) % 4) * 64 + B64Val(s[4])>>
        \o AtobBytes(SubSeq(s, 5, Len(s)))

\* atob throws on a character outside the alphabet and on a length of 4n+1
AtobOk(s) ==
    LET d == StripPad(s)
    IN  /\ Len(d) % 4 # 1
        /\ \A i \in 1..Len(d) : B64Val(d[i]) >= 0

Atob(s) == AtobBytes(StripPad(s))

\* Crypto.encrypt of a string; btoa throws on a code above 255
EncryptOk(text) == \A i \in 1..Len(text) : XorText(text)[i] <= 255
encrypt(text) == Btoa(XorText(text))

\* Crypto.decrypt of a string: the text, or null when atob throws
decrypt(encrypted) ==
    IF AtobOk(encrypted) THEN Str(XorText(Atob(encrypted))) ELSE Null

\* ------------------------------------------------------- Compression module
RECURSIVE RunLen(_, _)
\* length of the run of c at the head of s
RunLen(s, c) == IF s # <<>> /\ Head(s) = c THEN 1 + RunLen(Tail(s), c) ELSE 0

RECURSIVE compress(_)
compress(text) ==
    IF text = <<>> THEN <<>>
    ELSE LET c == Head(text)
             n == RunLen(text, c)
             rest == SubSeq(text, n + 1, Len(text))
         IN  IF n > 3 THEN (<<c>> \o Digits(n)) \o compress(rest)
             ELSE Repeat(c, n) \o compress(rest)

RECURSIVE DigitRun(_)
\* length of the run of digits at the head of s
DigitRun(s) == IF s # <<>> /\ IsDigit(Head(s)) THEN 1 + DigitRun(Tail(s)) ELSE 0

RECURSIVE decompress(_)
decompress(compressed) ==
    IF compressed = <<>> THEN <<>>
    ELSE LET c == Head(compressed)
             d == DigitRun(Tail(compressed))
         IN  IF d > 0 THEN
                 Repeat(c, ParseInt(SubSeq(compressed, 2, d + 1), 0))
                 \o decompress(SubSeq(compressed, d + 2, Len(compressed)))
             ELSE <<c>> \o decompress(Tail(compressed))

\* -------------------------------------------------------------------- JSON
\* JSON.parse and JSON.stringify on the values above.  Numbers are the
\* integers: a text with a fraction or an exponent is not among the
\* documents modelled.
TextNull == <<110, 117, 108, 108>>       \* 'null'
TextTrue == <<116, 114, 117, 101>>       \* 'true'
TextFalse == <<102, 97, 108, 115, 101>>  \* 'false'
TextUndefined == <<117, 110, 100, 101, 102, 105, 110, 101, 100>>  \* 'undefined'

At(text, i) == IF i >= 1 /\ i <= Len(text) THEN text[i] ELSE -1
StartsWith(text, i, w) ==
    i + Len(w) - 1 <= Len(text) /\ SubSeq(text, i, i + Len(w) - 1) = w

Parsed(v, i) == [ok |-> TRUE, v |-> v, i |-> i]
NotParsed == [ok |-> FALSE, v |-> Undefined, i |-> 0]

RECURSIVE SkipWs(_, _)
SkipWs(text, i) == IF At(text, i) \in {9, 10, 13, 32} THEN SkipWs(text, i + 1) ELSE i

\* the value of a hexadecimal digit, -1 for any other character
HexVal(c) ==
    IF IsDigit(c) THEN c - 48
    ELSE IF c >= 97 /\ c <= 102 THEN c - 87
    ELSE IF c >= 65 /\ c <= 70 THEN c - 55 ELSE -1

\* the character an escape letter stands for, -1 when it is no escape
Unescape(c) ==
    IF c \in {34, 92, 47} THEN c
    ELSE IF c = 98 THEN 8
    ELSE IF c = 102 THEN 12
    ELSE IF c = 110 THEN 10
    ELSE IF c = 114 THEN 13
    ELSE IF c = 116 THEN 9 ELSE -1

RECURSIVE JsonString(_, _, _)
\* a string literal, read from the character after its opening quote
JsonString(text, i, acc) ==
    LET c == At(text, i)
    IN  IF c = 34 THEN Parsed(Str(acc), i + 1)
        ELSE IF c < 32 THEN NotParsed
        ELSE IF c = 92 THEN
            LET e == At(text, i + 1)
            IN  IF Unescape(e) >= 0
                THEN JsonString(text, i + 2, Append(acc, Unescape(e)))
                ELSE IF e = 117 /\ \A h \in 2..5 : HexVal(At(text, i + h)) >= 0
                THEN JsonString(text, i + 6,
                         Append(acc, 4096 * HexVal(At(text, i + 2))
                                     + 256 * HexVal(At(text, i + 3))
                                     + 16 * HexVal(At(text, i + 4))
                                     + HexVal(At(text, i + 5))))
                ELSE NotParsed
        ELSE JsonString(text, i + 1, Append(acc, c))

\* an integer literal: an optional minus sign, then 0 or digits without a
\* leading 0
JsonNumber(text, i) ==
    LET neg == At(text, i) = 45
        from == IF neg THEN i + 1 ELSE i
        n == DigitRun(SubSeq(text, from, Len(text)))
        ds == SubSeq(text, from, from + n - 1)
    IN  IF n = 0 \/ (n > 1 /\ ds[1] = 48) THEN NotParsed
        ELSE IF At(text, from + n) \in {46, 69, 101} THEN NotParsed
        ELSE Parsed(Num(IF neg THEN 0 - ParseInt(ds, 0) ELSE ParseInt(ds, 0)), from + n)

RECURSIVE JsonValue(_, _)
RECURSIVE JsonElements(_, _, _)
RECURSIVE JsonMembers(_, _, _)

JsonValue(text, from) ==
    LET i == SkipWs(text, from)
        c == At(text, i)
    IN  IF c = 34 THEN JsonString(text, i + 1, <<>>)
        ELSE IF c = 91 THEN
            LET j == SkipWs(text, i + 1)
            IN  IF At(text, j) = 93 THEN Parsed(Arr(<<>>), j + 1)
                ELSE JsonElements(text, j, <<>>)
        ELSE IF c = 123 THEN
            LET j == SkipWs(text, i + 1)
            IN  IF At(text, j) = 125 THEN Parsed(Obj(<<>>), j + 1)
                ELSE JsonMembers(text, j, <<>>)
        ELSE IF StartsWith(text, i, TextNull) THEN Parsed(Null, i + 4)
        ELSE IF StartsWith(text, i, TextTrue) THEN Parsed(Bool(TRUE), i + 4)
        ELSE IF StartsWith(text, i, TextFalse) THEN Parsed(Bool(FALSE), i + 5)
        ELSE IF c = 45 \/ IsDigit(c) THEN JsonNumber(text, i)
        ELSE NotParsed

\* the elements of an array, read from its first element
JsonElements(text, i, acc) ==
    LET e == JsonValue(text, i)
    IN  IF ~e.ok THEN NotParsed
        ELSE LET j == SkipWs(text, e.i)
             IN  IF At(text, j) = 44 THEN JsonElements(text, j + 1, Append(acc, e.v))
                 ELSE IF At(text, j) = 93 THEN Parsed(Arr(Append(acc, e.v)), j + 1)
                 ELSE NotParsed

\* the members of an object, read from its first member
JsonMembers(text, from, acc) ==
    LET i == SkipWs(text, from)
        n == JsonString(text, i + 1, <<>>)
    IN  IF At(text, i) # 34 \/ ~n.ok THEN NotParsed
        ELSE LET c == SkipWs(text, n.i)
                 e == JsonValue(text, c + 1)
             IN  IF At(text, c) # 58 \/ ~e.ok THEN NotParsed
                 ELSE LET j == SkipWs(text, e.i)
                          all == Append(acc, [name |-> n.v.s, val |-> e.v])
                      IN  IF At(text, j) = 44 THEN JsonMembers(text, j + 1, all)
                          ELSE IF At(text, j) = 125 THEN Parsed(Obj(all), j + 1)
                          ELSE NotParsed

\* JSON.parse(text): ok is false when it throws a SyntaxError
JsonParse(text) ==
    LET r == JsonValue(text, 1)
    IN  IF r.ok /\ SkipWs(text, r.i) = Len(text) + 1 THEN r ELSE NotParsed

\* object.name: the value of the last member of that name, undefined when
\* there is none or the value is not an object
Field(v, name) ==
    IF v.t = "object" /\ \E i \in 1..Len(v.s) : v.s[i].name = name
    THEN LET i == CHOOSE j \in 1..Len(v.s) :
                      v.s[j].name = name /\ \A h \in (j + 1)..Len(v.s) : v.s[h].name # name
         IN  v.s[i].val
    ELSE Undefined

\* ------------------------------------------------- JavaScript Map (ordered)
Has(m, k) == \E i \in 1..Len(m) : m[i].key = k
Idx(m, k) == CHOOSE i \in 1..Len(m) : m[i].key = k
MapGet(m, k) == m[Idx(m, k)].entry
\* a changed map.set: an entry without an expiry time written over one that
\* has it keeps the old expiry time
MapSetMerge(m, k, e) ==
    IF Has(m, k)
    THEN [m EXCEPT ![Idx(m, k)].entry =
             [e EXCEPT !.expiry = IF e.expiry = 0 THEN m[Idx(m, k)].entry.expiry ELSE @]]
    ELSE Append(m, [key |-> k, entry |-> e])

MapSet(m, k, e) ==
    IF Has(m, k) THEN [m EXCEPT ![Idx(m, k)].entry = e]
    ELSE Append(m, [key |-> k, entry |-> e])
MapDelete(m, k) == SelectSeq(m, LAMBDA r : r.key # k)
MapKeys(m) == {m[i].key : i \in 1..Len(m)}

\* ------------------------------------------------------------ engine state
\* The fields of a TinyKVStorePro object, with the pending setTimeout
\* callbacks (timers), the blob persist() last wrote (blob) and whether
\* localStorage.setItem throws (storageFull).  A timer's stale flag is a
\* history mark: a later put of the timer's key was accepted.
NoOptions == [ttl |-> 0, encrypted |-> FALSE, compress |-> FALSE]
EmptyBlob == [store |-> <<>>, encryptedKeys |-> {}, wal |-> <<>>]

\* what a call hands back: the engine after it, the value returned (ret for a
\* value, ok for a flag), and whether it threw
Result(s, ret, ok, threw) == [s |-> s, ret |-> ret, ok |-> ok, threw |-> threw]

Expired(entry, now) == entry.expiry # 0 /\ entry.expiry < now

LastN(q, n) == IF Len(q) <= n THEN q ELSE SubSeq(q, Len(q) - n + 1, Len(q))

\* this.stats as the constructor and resetStats set it
ZeroStats ==
    [totalOps |-> 0, putOps |-> 0, getOps |-> 0, deleteOps |-> 0,
     cacheHits |-> 0, cacheMisses |-> 0]

\* the counters are not followed
StatsOff ==
    [totalOps |-> -1, putOps |-> -1, getOps |-> -1, deleteOps |-> -1,
     cacheHits |-> -1, cacheMisses |-> -1]

\* this.stats[name]++
Bump(st, name) == IF st = StatsOff THEN st ELSE [st EXCEPT ![name] = @ + 1]

\* a changed recordStats: only the counter of the operation is stepped
recordStatsNoTotal(st, operation) ==
    IF operation = "PUT" THEN Bump(st, "putOps")
    ELSE IF operation = "GET" THEN Bump(st, "getOps")
    ELSE Bump(st, "deleteOps")

\* recordStats(operation, latency): totalOps and the counter named
\* operation.toLowerCase() + 'Ops'
recordStats(st, operation) ==
    IF operation = "PUT" THEN Bump(Bump(st, "totalOps"), "putOps")
    ELSE IF operation = "GET" THEN Bump(Bump(st, "totalOps"), "getOps")
    ELSE Bump(Bump(st, "totalOps"), "deleteOps")

resetStats(st) == IF st = StatsOff THEN st ELSE ZeroStats

\* a changed persist: the encrypted key set is not written
persistNoKeys(s) ==
    IF s.storageFull THEN s
    ELSE [s EXCEPT !.blob = [store |-> s.store, encryptedKeys |-> {},
                             wal |-> LastN(s.wal, WalTail)]]

\* a changed persist: after a failed write the engine goes back to what
\* the item holds
persistRollback(s) ==
    IF s.storageFull
    THEN [s EXCEPT !.store = s.blob.store, !.encryptedKeys = s.blob.encryptedKeys,
                   !.wal = s.blob.wal]
    ELSE [s EXCEPT !.blob = [store |-> s.store, encryptedKeys |-> s.encryptedKeys,
                             wal |-> LastN(s.wal, WalTail)]]

\* the catch block of persist only logs: a failed write leaves the item as it was
persist(s) ==
    IF s.storageFull THEN s
    ELSE [s EXCEPT !.blob = [store |-> s.store, encryptedKeys |-> s.encryptedKeys,
                             wal |-> LastN(s.wal, WalTail)]]

\* a changed updateCache: an entry already cached is not replaced
updateCacheNoReplace(cache, cacheSize, key, entry) ==
    IF Has(cache, key) THEN cache
    ELSE LET kept == IF Len(cache) >= cacheSize /\ cache # <<>>
                     THEN MapDelete(cache, cache[1].key) ELSE cache
         IN  Append(kept, [key |-> key, entry |-> entry])

\* a changed updateCache: no key is evicted
updateCacheNoEvict(cache, cacheSize, key, entry) ==
    MapSet(cache, key, entry)

updateCache(cache, cacheSize, key, entry) ==
    LET kept == IF Len(cache) >= cacheSize /\ cache # <<>>
                THEN MapDelete(cache, cache[1].key) ELSE cache
    IN  MapSet(kept, key, entry)

\* processValue throws when it decompresses a value that is not a string
ProcessThrows(value, entry) == entry.compressed /\ ~IsString(value)

processValue(value, entry) ==
    LET unpacked == IF entry.compressed THEN Str(decompress(value.s)) ELSE value
    IN  IF entry.encrypted
        THEN decrypt(IF IsString(unpacked) THEN unpacked.s ELSE <<110, 117, 108, 108>>)
        ELSE unpacked

\* a changed delete: success is reported whether or not the key was stored
deleteReportsTrue(s, now, key) ==
    LET after == [s EXCEPT
                    !.wal = Append(@, [timestamp |-> now, op |-> "DELETE", key |-> key,
                                       value |-> Undefined, options |-> NoOptions]),
                    !.store = MapDelete(@, key),
                    !.cache = MapDelete(@, key),
                    !.encryptedKeys = @ \ {key},
                    !.stats = recordStats(@, "DELETE")]
    IN  Result(persist(after), Null, TRUE, FALSE)

\* a changed delete: the key stays in the encrypted key set
deleteKeepEncrypted(s, now, key) ==
    LET after == [s EXCEPT
                    !.wal = Append(@, [timestamp |-> now, op |-> "DELETE", key |-> key,
                                       value |-> Undefined, options |-> NoOptions]),
                    !.store = MapDelete(@, key),
                    !.cache = MapDelete(@, key),
                    !.stats = recordStats(@, "DELETE")]
    IN  Result(persist(after), Null, Has(s.store, key), FALSE)

\* a changed delete: the cache is not invalidated
deleteKeepCache(s, now, key) ==
    LET after == [s EXCEPT
                    !.wal = Append(@, [timestamp |-> now, op |-> "DELETE", key |-> key,
                                       value |-> Undefined, options |-> NoOptions]),
                    !.store = MapDelete(@, key),
                    !.encryptedKeys = @ \ {key},
                    !.stats = recordStats(@, "DELETE")]
    IN  Result(persist(after), Null, Has(s.store, key), FALSE)

delete(s, now, key) ==
    LET after == [s EXCEPT
                    !.wal = Append(@, [timestamp |-> now, op |-> "DELETE", key |-> key,
                                       value |-> Undefined, options |-> NoOptions]),
                    !.store = MapDelete(@, key),
                    !.cache = MapDelete(@, key),
                    !.encryptedKeys = @ \ {key},
                    !.stats = recordStats(@, "DELETE")]
    IN  Result(persist(after), Null, Has(s.store, key), FALSE)

\* Crypto.encrypt throws on a value without a length and on a code above 255
EncryptThrows(value) == ~IsString(value) \/ ~EncryptOk(value.s)

\* a changed put: the earlier timeouts of the key are cleared
CancelTimers(timers, key) == SelectSeq(timers, LAMBDA t : t.key # key)

\* put clears no earlier timeout of the key: the timers it finds stay pending
KeepTimers(timers, key) ==
    [i \in 1..Len(timers) |->
        IF timers[i].key = key THEN [timers[i] EXCEPT !.stale = TRUE] ELSE timers[i]]

\* a changed put: no deferred deletion is scheduled
NoTimeout(timers, key, due) == timers

\* setTimeout(() => this.delete(key), options.ttl * 1000)
setTimeout(timers, key, due) ==
    Append(timers, [key |-> key, due |-> due, stale |-> FALSE])

\* a changed put: only the key is validated
putNoValueCheck(s, now, key, value, options) ==
    IF key = <<>> THEN Result(s, Null, FALSE, TRUE)
    ELSE IF options.encrypted /\ EncryptThrows(value) THEN Result(s, Null, FALSE, TRUE)
    ELSE
      LET encoded == IF options.encrypted THEN Str(encrypt(value.s)) ELSE value
          encKeys == IF options.encrypted THEN s.encryptedKeys \cup {key}
                     ELSE s.encryptedKeys
          storedValue == IF options.compress /\ IsString(encoded)
                         THEN Str(compress(encoded.s)) ELSE encoded
          hasTtl == options.ttl > 0
          due == now + options.ttl * MsPerSecond
          entry == [value |-> storedValue, timestamp |-> now,
                    encrypted |-> options.encrypted, compressed |-> options.compress,
                    expiry |-> IF hasTtl THEN due ELSE 0]
          marked == KeepTimers(s.timers, key)
          after == [s EXCEPT
                      !.encryptedKeys = encKeys,
                      !.wal = Append(@, [timestamp |-> now, op |-> "PUT", key |-> key,
                                         value |-> storedValue, options |-> options]),
                      !.timers = IF hasTtl THEN setTimeout(marked, key, due)
                                 ELSE marked,
                      !.store = MapSet(@, key, entry),
                      !.cache = updateCache(@, s.cacheSize, key, entry),
                      !.stats = recordStats(@, "PUT")]
      IN  Result(persist(after), Null, TRUE, FALSE)

put(s, now, key, value, options) ==
    IF key = <<>> \/ value = Undefined THEN Result(s, Null, FALSE, TRUE)
    ELSE IF options.encrypted /\ EncryptThrows(value) THEN Result(s, Null, FALSE, TRUE)
    ELSE
      LET encoded == IF options.encrypted THEN Str(encrypt(value.s)) ELSE value
          encKeys == IF options.encrypted THEN s.encryptedKeys \cup {key}
                     ELSE s.encryptedKeys
          storedValue == IF options.compress /\ IsString(encoded)
                         THEN Str(compress(encoded.s)) ELSE encoded
          hasTtl == options.ttl > 0
          due == now + options.ttl * MsPerSecond
          entry == [value |-> storedValue, timestamp |-> now,
                    encrypted |-> options.encrypted, compressed |-> options.compress,
                    expiry |-> IF hasTtl THEN due ELSE 0]
          marked == KeepTimers(s.timers, key)
          after == [s EXCEPT
                      !.encryptedKeys = encKeys,
                      !.wal = Append(@, [timestamp |-> now, op |-> "PUT", key |-> key,
                                         value |-> storedValue, options |-> options]),
                      !.timers = IF hasTtl THEN setTimeout(marked, key, due)
                                 ELSE marked,
                      !.store = MapSet(@, key, entry),
                      !.cache = updateCache(@, s.cacheSize, key, entry),
                      !.stats = recordStats(@, "PUT")]
      IN  Result(persist(after), Null, TRUE, FALSE)

\* a changed get: a cache hit moves the entry to the end of the cache
getLru(s, now, key) ==
    IF Has(s.cache, key) THEN
        LET entry == MapGet(s.cache, key)
            hit == [s EXCEPT !.stats = Bump(Bump(@, "getOps"), "cacheHits")]
            served == [hit EXCEPT !.stats = recordStats(@, "GET"),
                                  !.cache = Append(MapDelete(@, key),
                                                   [key |-> key, entry |-> entry])]
        IN  IF Expired(entry, now) THEN Result(delete(hit, now, key).s, Null, FALSE, FALSE)
            ELSE IF ProcessThrows(entry.value, entry)
            THEN Result([hit EXCEPT !.stats = recordStats(@, "GET")], Null, FALSE, TRUE)
            ELSE Result(served, processValue(entry.value, entry), TRUE, FALSE)
    ELSE
        LET miss == [s EXCEPT !.stats = Bump(Bump(@, "getOps"), "cacheMisses")]
        IN  IF ~Has(s.store, key)
            THEN Result([miss EXCEPT !.stats = recordStats(@, "GET")], Null, FALSE, FALSE)
            ELSE
              LET entry == MapGet(s.store, key)
                  cached == [miss EXCEPT
                               !.cache = updateCache(@, s.cacheSize, key, entry),
                               !.stats = recordStats(@, "GET")]
              IN  IF Expired(entry, now)
                  THEN Result(delete(miss, now, key).s, Null, FALSE, FALSE)
                  ELSE IF ProcessThrows(entry.value, entry)
                  THEN Result(cached, Null, FALSE, TRUE)
                  ELSE Result(cached, processValue(entry.value, entry), TRUE, FALSE)

\* get(key): getOps and cacheHits or cacheMisses are stepped first; a call
\* that finds the entry expired ends in delete, the others in recordStats
\* a changed get: an entry read from the store is served without the expiry
\* test
getServesExpired(s, now, key) ==
    IF Has(s.cache, key) THEN
        LET entry == MapGet(s.cache, key)
            hit == [s EXCEPT !.stats = Bump(Bump(@, "getOps"), "cacheHits")]
            served == [hit EXCEPT !.stats = recordStats(@, "GET")]
        IN  IF Expired(entry, now) THEN Result(delete(hit, now, key).s, Null, FALSE, FALSE)
            ELSE IF ProcessThrows(entry.value, entry) THEN Result(served, Null, FALSE, TRUE)
            ELSE Result(served, processValue(entry.value, entry), TRUE, FALSE)
    ELSE
        LET miss == [s EXCEPT !.stats = Bump(Bump(@, "getOps"), "cacheMisses")]
        IN  IF ~Has(s.store, key)
            THEN Result([miss EXCEPT !.stats = recordStats(@, "GET")], Null, FALSE, FALSE)
            ELSE LET entry == MapGet(s.store, key)
                     cached == [miss EXCEPT !.cache = updateCache(@, s.cacheSize, key, entry),
                                            !.stats = recordStats(@, "GET")]
                 IN  IF ProcessThrows(entry.value, entry) THEN Result(cached, Null, FALSE, TRUE)
                     ELSE Result(cached, processValue(entry.value, entry), TRUE, FALSE)

get(s, now, key) ==
    IF Has(s.cache, key) THEN
        LET entry == MapGet(s.cache, key)
            hit == [s EXCEPT !.stats = Bump(Bump(@, "getOps"), "cacheHits")]
            served == [hit EXCEPT !.stats = recordStats(@, "GET")]
        IN  IF Expired(entry, now) THEN Result(delete(hit, now, key).s, Null, FALSE, FALSE)
            ELSE IF ProcessThrows(entry.value, entry) THEN Result(served, Null, FALSE, TRUE)
            ELSE Result(served, processValue(entry.value, entry), TRUE, FALSE)
    ELSE
        LET miss == [s EXCEPT !.stats = Bump(Bump(@, "getOps"), "cacheMisses")]
        IN  IF ~Has(s.store, key)
            THEN Result([miss EXCEPT !.stats = recordStats(@, "GET")], Null, FALSE, FALSE)
            ELSE
              LET entry == MapGet(s.store, key)
                  cached == [miss EXCEPT
                               !.cache = updateCache(@, s.cacheSize, key, entry),
                               !.stats = recordStats(@, "GET")]
              IN  IF Expired(entry, now)
                  THEN Result(delete(miss, now, key).s, Null, FALSE, FALSE)
                  ELSE IF ProcessThrows(entry.value, entry)
                  THEN Result(cached, Null, FALSE, TRUE)
                  ELSE Result(cached, processValue(entry.value, entry), TRUE, FALSE)

\* a changed exists: the expiry time of the entry is not looked at
existsNoExpiry(s, now, key) ==
    IF ~Has(s.store, key) THEN Result(s, Null, FALSE, FALSE)
    ELSE Result(s, Null, TRUE, FALSE)

exists(s, now, key) ==
    IF ~Has(s.store, key) THEN Result(s, Null, FALSE, FALSE)
    ELSE IF Expired(MapGet(s.store, key), now)
         THEN Result(delete(s, now, key).s, Null, FALSE, FALSE)
         ELSE Result(s, Null, TRUE, FALSE)

\* a changed clear: the query history and the counters are left alone
clearKeepsHistory(s) ==
    persist([s EXCEPT !.store = <<>>, !.cache = <<>>, !.encryptedKeys = {},
                      !.wal = <<>>])

\* a changed clear: the pending timeouts are cleared with the entries
clearCancelsTimers(s) ==
    [persist([s EXCEPT !.store = <<>>, !.cache = <<>>, !.encryptedKeys = {},
                       !.wal = <<>>, !.queryHistory = <<>>, !.timers = <<>>])
        EXCEPT !.stats = resetStats(@)]

\* clear(): persist() runs on the emptied fields, then resetStats()
clear(s) ==
    [persist([s EXCEPT !.store = <<>>, !.cache = <<>>, !.encryptedKeys = {},
                       !.wal = <<>>, !.queryHistory = <<>>])
        EXCEPT !.stats = resetStats(@)]

putEncrypted(s, now, key, value, ttl) ==
    put(s, now, key, value, [ttl |-> ttl, encrypted |-> TRUE, compress |-> FALSE])

\* ----------------------------------------------------------- export, import
NameKey == <<107, 101, 121>>                      \* 'key'
NameValue == <<118, 97, 108, 117, 101>>         \* 'value'
NameTtl == <<116, 116, 108>>                      \* 'ttl'
CsvHeader == <<75, 101, 121, 44, 86, 97, 108, 117, 101, 44, 84, 105, 109, 101, 115, 116, 97, 109, 112, 44, 69, 110, 99, 114, 121, 112, 116, 101, 100, 44, 84, 84, 76>>

\* `${v}` of a value that is not an array or an object
ToText(v) ==
    CASE v.t = "string" -> v.s
      [] v.t = "null" -> TextNull
      [] v.t = "undefined" -> TextUndefined
      [] v.t = "boolean" -> IF v.s[1] THEN TextTrue ELSE TextFalse
      [] v.t = "number" ->
            IF v.s[1] < 0 THEN <<45>> \o Digits(0 - v.s[1]) ELSE Digits(v.s[1])

\* a hexadecimal digit in lower case
HexChar(n) == IF n < 10 THEN 48 + n ELSE 87 + n

RECURSIVE JsonEscape(_)
\* the characters of a string as JSON.stringify writes them
JsonEscape(text) ==
    IF text = <<>> THEN <<>>
    ELSE LET c == Head(text)
             out == IF c \in {34, 92} THEN <<92, c>>
                    ELSE IF c = 8 THEN <<92, 98>>
                    ELSE IF c = 9 THEN <<92, 116>>
                    ELSE IF c = 10 THEN <<92, 110>>
                    ELSE IF c = 12 THEN <<92, 102>>
                    ELSE IF c = 13 THEN <<92, 114>>
                    ELSE IF c < 32
                    THEN <<92, 117, 48, 48, HexChar(c \div 16), HexChar(c % 16)>>
                    ELSE <<c>>
         IN  out \o JsonEscape(Tail(text))

\* JSON.stringify of a value that is not an array or an object
JsonText(v) ==
    IF IsString(v) THEN (<<34>> \o JsonEscape(v.s)) \o <<34>> ELSE ToText(v)

\* one element of the array export builds from the store
ExportEntry(r, now) ==
    [key |-> r.key,
     value |-> processValue(r.entry.value, r.entry),
     timestamp |-> r.entry.timestamp,
     encrypted |-> r.entry.encrypted,
     ttl |-> IF r.entry.expiry = 0 THEN Null
             ELSE LET left == (r.entry.expiry - now) \div MsPerSecond
                  IN  Num(IF left < 0 THEN 0 ELSE left)]

\* the members of an entry as JSON.stringify writes them, before and after
\* the colon
EntryMembers(e) ==
    <<<<NameKey, JsonText(Str(e.key))>>,
      <<NameValue, JsonText(e.value)>>,
      <<<<116, 105, 109, 101, 115, 116, 97, 109, 112>>, Digits(e.timestamp)>>,
      <<<<101, 110, 99, 114, 121, 112, 116, 101, 100>>, IF e.encrypted THEN TextTrue ELSE TextFalse>>,
      <<NameTtl, JsonText(e.ttl)>>>>

\* JSON.stringify(entries)
JsonCompact(entries) ==
    LET member(p) == ((<<34>> \o p[1]) \o <<34, 58>>) \o p[2]
        object(e) ==
            (<<123>> \o Join([i \in 1..5 |-> member(EntryMembers(e)[i])], <<44>>))
            \o <<125>>
    IN  (<<91>> \o Join([i \in 1..Len(entries) |-> object(entries[i])], <<44>>))
        \o <<93>>

\* JSON.stringify(entries, null, 2)
JsonPretty(entries) ==
    LET member(p) == ((<<32, 32, 32, 32, 34>> \o p[1]) \o <<34, 58, 32>>) \o p[2]
        object(e) ==
            (<<32, 32, 123, 10>>
             \o Join([i \in 1..5 |-> member(EntryMembers(e)[i])], <<44, 10>>))
            \o <<10, 32, 32, 125>>
    IN  IF entries = <<>> THEN <<91, 93>>
        ELSE (<<91, 10>>
              \o Join([i \in 1..Len(entries) |-> object(entries[i])], <<44, 10>>))
             \o <<10, 93>>

\* `"${e.key}","${e.value}","${e.timestamp}",${e.encrypted},${e.ttl}`
CsvLine(e) ==
    (<<34>> \o e.key) \o (<<34, 44, 34>> \o ToText(e.value))
    \o (<<34, 44, 34>> \o Digits(e.timestamp))
    \o (<<34, 44>> \o (IF e.encrypted THEN TextTrue ELSE TextFalse))
    \o (<<44>> \o ToText(e.ttl))

\* `${e.key} = ${e.value}`
TxtLine(e) == (e.key \o <<32, 61, 32>>) \o ToText(e.value)

\* export(format): the text returned; it throws when processValue throws
export(s, now, format) ==
    IF \E i \in 1..Len(s.store) :
          ProcessThrows(s.store[i].entry.value, s.store[i].entry)
    THEN Result(s, Null, FALSE, TRUE)
    ELSE
      LET entries == [i \in 1..Len(s.store) |-> ExportEntry(s.store[i], now)]
          text ==
            IF format = "json" THEN JsonPretty(entries)
            ELSE IF format = "csv" THEN
                Join(<<CsvHeader>> \o [i \in 1..Len(entries) |-> CsvLine(entries[i])],
                     <<10>>)
            ELSE IF format = "txt" THEN
                Join([i \in 1..Len(entries) |-> TxtLine(entries[i])], <<10>>)
            ELSE JsonCompact(entries)
      IN  Result(s, Str(text), TRUE, FALSE)

\* the record import makes of one line: its first two fields, trimmed, and
\* for csv without the quotes around them
LineRecord(line, sep, quoted) ==
    LET f == Split(line, sep)
        g == [i \in 1..Len(f) |->
                IF quoted THEN StripQuotes(Trim(f[i])) ELSE Trim(f[i])]
    IN  Obj(<<[name |-> NameKey, val |-> Str(g[1])],
              [name |-> NameValue,
               val |-> IF Len(g) >= 2 THEN Str(g[2]) ELSE Undefined]>>)

\* the switch of import: the entries parsed from the data; ok is false when
\* the parser or the default branch throws
ImportEntries(data, format) ==
    IF format = "json" THEN
        LET r == JsonParse(data) IN [ok |-> r.ok, v |-> r.v]
    ELSE IF format = "csv" THEN
        LET lines == Tail(Split(data, 10))
        IN  [ok |-> TRUE,
             v |-> Arr([i \in 1..Len(lines) |-> LineRecord(lines[i], 44, TRUE)])]
    ELSE IF format = "txt" THEN
        LET lines == Split(data, 10)
        IN  [ok |-> TRUE,
             v |-> Arr([i \in 1..Len(lines) |-> LineRecord(lines[i], 61, FALSE)])]
    ELSE [ok |-> FALSE, v |-> Undefined]

\* the seconds put takes from { ttl: entry.ttl || null }: the ttl when it is
\* greater than 0 as a number, none otherwise
ImportTtl(t) ==
    IF t.t = "number" /\ t.s[1] > 0 THEN t.s[1]
    ELSE IF t.t = "boolean" /\ t.s[1] THEN 1
    ELSE IF IsString(t) /\ t.s # <<>> /\ \A i \in 1..Len(t.s) : IsDigit(t.s[i])
    THEN ParseInt(t.s, 0)
    ELSE 0

RECURSIVE ImportLoop(_, _, _, _)
\* entries.forEach: reading .key of null or undefined throws; an entry with a
\* falsy key or value is skipped.  The keys put are strings.
ImportLoop(s, now, entries, imported) ==
    IF entries = <<>> THEN [s |-> s, imported |-> imported, threw |-> FALSE]
    ELSE LET e == Head(entries)
             k == Field(e, NameKey)
             v == Field(e, NameValue)
         IN  IF e.t \in {"null", "undefined"}
             THEN [s |-> s, imported |-> imported, threw |-> TRUE]
             ELSE IF Truthy(k) /\ Truthy(v) THEN
                 CASE IsString(k) ->
                    LET r == put(s, now, k.s, v,
                                 [ttl |-> ImportTtl(Field(e, NameTtl)),
                                  encrypted |-> FALSE, compress |-> FALSE])
                    IN  IF r.threw
                        THEN [s |-> r.s, imported |-> imported, threw |-> TRUE]
                        ELSE ImportLoop(r.s, now, Tail(entries), imported + 1)
             ELSE ImportLoop(s, now, Tail(entries), imported)

\* a changed import: a failed import puts the engine back as it was
importRollback(s, now, data, format) ==
    LET p == ImportEntries(data, format)
    IN  IF ~p.ok \/ p.v.t # "array" THEN Result(s, Null, FALSE, FALSE)
        ELSE LET l == ImportLoop(s, now, p.v.s, 0)
             IN  IF l.threw THEN Result(s, Null, FALSE, FALSE)
                 ELSE Result(l.s, Arr(<<Num(l.imported), Num(Len(p.v.s))>>),
                             TRUE, FALSE)

\* import(data, format) of a text: every exception ends in the catch block,
\* which returns success = false; on success ret is <<imported, total>>
import(s, now, data, format) ==
    LET p == ImportEntries(data, format)
    IN  IF ~p.ok \/ p.v.t # "array" THEN Result(s, Null, FALSE, FALSE)
        ELSE LET l == ImportLoop(s, now, p.v.s, 0)
             IN  IF l.threw THEN Result(l.s, Null, FALSE, FALSE)
                 ELSE Result(l.s, Arr(<<Num(l.imported), Num(Len(p.v.s))>>),
                             TRUE, FALSE)

\* a changed getDecrypted: an entry that carries an expiry time is not found
getDecryptedNoTtl(s, key) ==
    IF ~Has(s.store, key) THEN Null
    ELSE LET entry == MapGet(s.store, key)
         IN  IF entry.expiry # 0 THEN Null
             ELSE IF entry.encrypted
             THEN decrypt(IF IsString(entry.value) THEN entry.value.s
                          ELSE ToText(entry.value))
             ELSE entry.value

\* getDecrypted reads the entry of the store as it is: no expiry test, no
\* decompression
getDecrypted(s, key) ==
    IF ~Has(s.store, key) THEN Null
    ELSE LET entry == MapGet(s.store, key)
         IN  IF entry.encrypted
             THEN decrypt(IF IsString(entry.value) THEN entry.value.s
                          ELSE ToText(entry.value))
             ELSE entry.value

\* ------------------------------------------------------------ query engine
\* Array.from(this.store.keys()): the keys in insertion order
StoreKeys(s) == [i \in 1..Len(s.store) |-> s.store[i].key]

\* a < b for strings: by code unit, a proper prefix first
RECURSIVE TextLess(_, _)
TextLess(a, b) ==
    IF b = <<>> THEN FALSE
    ELSE IF a = <<>> THEN TRUE
    ELSE IF Head(a) # Head(b) THEN Head(a) < Head(b)
    ELSE TextLess(Tail(a), Tail(b))

TextLeq(a, b) == a = b \/ TextLess(a, b)

\* keys.sort(): ascending by code unit
RECURSIVE SortKeys(_)
SortKeys(keys) ==
    IF keys = <<>> THEN <<>>
    ELSE LET i == CHOOSE j \in 1..Len(keys) :
                      \A h \in 1..Len(keys) : TextLeq(keys[j], keys[h])
         IN  <<keys[i]>> \o SortKeys(SubSeq(keys, 1, i - 1) \o SubSeq(keys, i + 1, Len(keys)))

\* array.slice(begin, end) with the indices JavaScript counts from the end
\* when they are negative
Slice(q, begin, end) ==
    LET from == IF begin < 0 THEN (IF Len(q) + begin < 0 THEN 0 ELSE Len(q) + begin)
                ELSE Min(begin, Len(q))
        to == IF end < 0 THEN (IF Len(q) + end < 0 THEN 0 ELSE Len(q) + end)
              ELSE Min(end, Len(q))
    IN  SubSeq(q, from + 1, to)

\* the characters the pattern of scan hands to RegExp with a meaning of their
\* own; * and ? are rewritten first
RegexSpecial == {36, 40, 41, 43, 46, 47, 91, 92, 93, 94, 123, 124, 125}

\* what . matches: any character but a line terminator
Dot(c) == c \notin {10, 13, 8232, 8233}

RECURSIVE Glob(_, _)
\* /^...$/.test(k) for the pattern after * became .* and ? became .
Glob(pattern, k) ==
    IF pattern = <<>> THEN k = <<>>
    ELSE IF Head(pattern) = 42
    THEN Glob(Tail(pattern), k) \/ (k # <<>> /\ Dot(Head(k)) /\ Glob(pattern, Tail(k)))
    ELSE IF Head(pattern) = 63
    THEN k # <<>> /\ Dot(Head(k)) /\ Glob(Tail(pattern), Tail(k))
    ELSE k # <<>> /\ Head(k) = Head(pattern) /\ Glob(Tail(pattern), Tail(k))

\* the patterns modelled hold no other special character
GlobMatch(pattern, k) ==
    CASE \A i \in 1..Len(pattern) : pattern[i] \notin RegexSpecial -> Glob(pattern, k)

DefaultScanCount == 10
TextStar == <<42>>                                \* '*'

\* a changed scan: the iteration ends only when the cursor has passed the
\* last matching key
scanLateEnd(s, cursor, count, match) ==
    LET n == IF count = 0 THEN DefaultScanCount ELSE count
        pattern == IF match = <<>> THEN TextStar ELSE match
        filtered == SelectSeq(StoreKeys(s), LAMBDA k : GlobMatch(pattern, k))
    IN  [cursor |-> IF cursor + n <= Len(filtered) THEN cursor + n ELSE 0,
         keys |-> Slice(filtered, cursor, cursor + n)]

\* scan(cursor, {count, match}); a count of 0 and a match of '' stand for the
\* options left out as well, || treats them alike
scan(s, cursor, count, match) ==
    LET n == IF count = 0 THEN DefaultScanCount ELSE count
        pattern == IF match = <<>> THEN TextStar ELSE match
        filtered == SelectSeq(StoreKeys(s), LAMBDA k : GlobMatch(pattern, k))
    IN  [cursor |-> IF cursor + n < Len(filtered) THEN cursor + n ELSE 0,
         keys |-> Slice(filtered, cursor, cursor + n)]

\* keys(pattern): '*' returns every key without a test
keys(s, pattern) ==
    IF pattern = TextStar THEN StoreKeys(s)
    ELSE SelectSeq(StoreKeys(s), LAMBDA k : GlobMatch(pattern, k))

\* new RegExp(pattern).test(k) for the patterns modelled: literal characters
\* and dots, with or without ^ in front and $ at the end
RegexTest(pattern, k) ==
    LET front == pattern # <<>> /\ Head(pattern) = 94
        rest == IF front THEN Tail(pattern) ELSE pattern
        back == rest # <<>> /\ rest[Len(rest)] = 36
        body == IF back THEN SubSeq(rest, 1, Len(rest) - 1) ELSE rest
        At0(i) == \A j \in 1..Len(body) :
                     IF body[j] = 46 THEN Dot(k[i + j - 1]) ELSE body[j] = k[i + j - 1]
    IN  CASE \A j \in 1..Len(body) : body[j] \notin (RegexSpecial \cup {42, 63}) \ {46} ->
            \E i \in 1..(Len(k) - Len(body) + 1) :
                /\ front => i = 1
                /\ back => i + Len(body) - 1 = Len(k)
                /\ At0(i)

regexSearch(s, pattern) ==
    SelectSeq(StoreKeys(s), LAMBDA k : RegexTest(pattern, k))

\* a changed prefixSearch: keys whose entry carries an expiry time are left out
prefixSearchNoTtl(s, prefix) ==
    SelectSeq(StoreKeys(s),
              LAMBDA k : StartsWith(k, 1, prefix) /\ MapGet(s.store, k).expiry = 0)

prefixSearch(s, prefix) ==
    SelectSeq(StoreKeys(s), LAMBDA k : StartsWith(k, 1, prefix))

\* a changed rangeQuery: the keys are filtered in the order of the store
rangeQueryUnsorted(s, start, end) ==
    SelectSeq(StoreKeys(s), LAMBDA k : TextLeq(start, k) /\ TextLeq(k, end))

\* rangeQuery(start, end) with two strings
rangeQuery(s, start, end) ==
    SelectSeq(SortKeys(StoreKeys(s)), LAMBDA k : TextLeq(start, k) /\ TextLeq(k, end))

\* JSON.stringify(entry.value).length of the values a put stores
ValueSize(entry) == Len(JsonText(entry.value))

RECURSIVE SortBySize(_)
\* .sort((a, b) => b.size - a.size): the largest first, equals in the order
\* they had (Array.prototype.sort is stable)
SortBySize(q) ==
    IF q = <<>> THEN <<>>
    ELSE LET i == CHOOSE j \in 1..Len(q) :
                      /\ \A h \in 1..Len(q) : q[h].size <= q[j].size
                      /\ \A h \in 1..(j - 1) : q[h].size < q[j].size
         IN  <<q[i]>> \o SortBySize(SubSeq(q, 1, i - 1) \o SubSeq(q, i + 1, Len(q)))

DefaultLimit == 10

\* a changed keysBySize: the pairs are cut to the limit in the order of the store
keysBySizeNoSort(s, limit) ==
    Slice([i \in 1..Len(s.store) |->
              [key |-> s.store[i].key, size |-> ValueSize(s.store[i].entry)]],
          0, limit)

keysBySize(s, limit) ==
    Slice(SortBySize([i \in 1..Len(s.store) |->
                         [key |-> s.store[i].key, size |-> ValueSize(s.store[i].entry)]]),
          0, limit)

\* parseInt(text) of the patterns modelled: white space, a sign, then the
\* digits up to the first other character; ok is false for NaN
ParseIntText(text) ==
    LET t == Trim(text)
        neg == t # <<>> /\ Head(t) = 45
        body == IF t # <<>> /\ Head(t) \in {43, 45} THEN Tail(t) ELSE t
        n == DigitRun(body)
        v == ParseInt(SubSeq(body, 1, n), 0)
    IN  [ok |-> n > 0, v |-> IF neg THEN 0 - v ELSE v]

TypePrefix == "prefix"
TypeRange == "range"
TypeSize == "size"
TypeRegex == "regex"

\* what the switch of advancedQuery returns; every other type falls to the
\* default
QueryResult(s, type, pattern) ==
    CASE type = TypePrefix -> prefixSearch(s, pattern)
      [] type = TypeRange ->
            LET parts == Split(pattern, 44)
            IN  IF Len(parts) < 2 THEN <<>>      \* end is undefined: k <= end is false
                ELSE rangeQuery(s, parts[1], parts[2])
      [] type = TypeSize ->
            LET n == ParseIntText(pattern)
            IN  keysBySize(s, IF n.ok /\ n.v # 0 THEN n.v ELSE DefaultLimit)
      [] type = TypeRegex -> regexSearch(s, pattern)
      [] OTHER -> <<>>

advancedQuery(s, now, type, pattern) ==
    Result([s EXCEPT !.queryHistory =
                         Append(@, [type |-> type, pattern |-> pattern, timestamp |-> now])],
           QueryResult(s, type, pattern), TRUE, FALSE)

\* ------------------------------------------------- the item in localStorage
NameStore == <<115, 116, 111, 114, 101>>                       \* 'store'
NameEncryptedKeys == <<101, 110, 99, 114, 121, 112, 116, 101, 100, 75, 101, 121, 115>>
NameWal == <<119, 97, 108>>                                    \* 'wal'
NameTimestamp == <<116, 105, 109, 101, 115, 116, 97, 109, 112>>
NameEncrypted == <<101, 110, 99, 114, 121, 112, 116, 101, 100>>
NameCompressed == <<99, 111, 109, 112, 114, 101, 115, 115, 101, 100>>
NameCompress == <<99, 111, 109, 112, 114, 101, 115, 115>>
NameExpiry == <<101, 120, 112, 105, 114, 121>>
NameOp == <<111, 112>>
NameOptions == <<111, 112, 116, 105, 111, 110, 115>>
TextPut == <<80, 85, 84>>                                      \* 'PUT'
TextDelete == <<68, 69, 76, 69, 84, 69>>                       \* 'DELETE'

Member(name, val) == [name |-> name, val |-> val]

RECURSIVE Stringify(_)
\* JSON.stringify(v): a member whose value is undefined is left out, an
\* undefined element of an array is written as null
Stringify(v) ==
    IF v.t = "array" THEN
        (<<91>> \o Join([i \in 1..Len(v.s) |->
                            IF v.s[i].t = "undefined" THEN TextNull
                            ELSE Stringify(v.s[i])], <<44>>)) \o <<93>>
    ELSE IF v.t = "object" THEN
        LET kept == SelectSeq(v.s, LAMBDA m : m.val.t # "undefined")
        IN  (<<123>> \o Join([i \in 1..Len(kept) |->
                                 ((<<34>> \o JsonEscape(kept[i].name)) \o <<34, 58>>)
                                 \o Stringify(kept[i].val)], <<44>>)) \o <<125>>
    ELSE JsonText(v)

RECURSIVE SetToSeq(_)
\* the members of a set in a list
SetToSeq(S) ==
    IF S = {} THEN <<>>
    ELSE LET x == CHOOSE y \in S : TRUE IN <<x>> \o SetToSeq(S \ {x})

\* an entry of the store as the object put built: expiry is a member only
\* of an entry put with a ttl
EntryValue(e) ==
    Obj(<<Member(NameValue, e.value), Member(NameTimestamp, Num(e.timestamp)),
          Member(NameEncrypted, Bool(e.encrypted)),
          Member(NameCompressed, Bool(e.compressed)),
          Member(NameExpiry, IF e.expiry = 0 THEN Undefined ELSE Num(e.expiry))>>)

\* a record of the write log as the object put or delete pushed; the options
\* object is written with the three options the engine reads
WalValue(r) ==
    Obj(<<Member(NameTimestamp, Num(r.timestamp)),
          Member(NameOp, Str(IF r.op = "PUT" THEN TextPut ELSE TextDelete)),
          Member(NameKey, Str(r.key)),
          Member(NameValue, r.value),
          Member(NameOptions,
                 IF r.op = "PUT"
                 THEN Obj(<<Member(NameTtl, Num(r.options.ttl)),
                            Member(NameEncrypted, Bool(r.options.encrypted)),
                            Member(NameCompress, Bool(r.options.compress))>>)
                 ELSE Undefined)>>)

\* the object persist hands to JSON.stringify
DataValue(data) ==
    LET marked == SetToSeq(data.encryptedKeys)
    IN  Obj(<<Member(NameStore,
                     Arr([i \in 1..Len(data.store) |->
                            Arr(<<Str(data.store[i].key),
                                  EntryValue(data.store[i].entry)>>)])),
              Member(NameEncryptedKeys, Arr([i \in 1..Len(marked) |-> Str(marked[i])])),
              Member(NameWal, Arr([i \in 1..Len(data.wal) |-> WalValue(data.wal[i])]))>>)

\* an item that something other than persist wrote; the text is empty when
\* the item was removed
Foreign(text) == [text |-> text]

\* localStorage.getItem('kvstore-pro'): the text persist wrote, or the
\* foreign text
ItemText(item) ==
    IF "text" \in DOMAIN item THEN item.text ELSE Stringify(DataValue(item))

\* a number member of an object read back, 0 when it is absent
NumberField(v, name) ==
    LET f == Field(v, name)
    IN  CASE f.t = "number" -> f.s[1]
          [] f.t = "undefined" -> 0

\* a boolean member of an object read back, false when it is absent
BoolField(v, name) ==
    LET f == Field(v, name)
    IN  CASE f.t = "boolean" -> f.s[1]
          [] f.t = "undefined" -> FALSE

\* the entry a parsed object is used as
EntryOf(v) ==
    [value |-> Field(v, NameValue), timestamp |-> NumberField(v, NameTimestamp),
     encrypted |-> BoolField(v, NameEncrypted),
     compressed |-> BoolField(v, NameCompressed),
     expiry |-> NumberField(v, NameExpiry)]

\* the record of the write log a parsed object is used as
WalOf(v) ==
    LET o == Field(v, NameOptions)
    IN  [timestamp |-> NumberField(v, NameTimestamp),
         op |-> CASE Field(v, NameOp).s = TextPut -> "PUT"
                  [] Field(v, NameOp).s = TextDelete -> "DELETE",
         key |-> Field(v, NameKey).s,
         value |-> Field(v, NameValue),
         options |-> IF o.t = "undefined" THEN NoOptions
                     ELSE [ttl |-> NumberField(o, NameTtl),
                           encrypted |-> BoolField(o, NameEncrypted),
                           compress |-> BoolField(o, NameCompress)]]

\* new Map(v) throws a TypeError: v is not iterable, or a value it
\* iterates over is not an object
MapThrows(v) ==
    \/ v.t \in {"number", "boolean", "object"}
    \/ v.t = "string" /\ v.s # <<>>
    \/ v.t = "array" /\ \E i \in 1..Len(v.s) : v.s[i].t \notin {"array", "object"}

RECURSIVE MapEntries(_, _)
\* the Map that set(e[0], e[1]) of every element in turn builds
MapEntries(elements, m) ==
    IF elements = <<>> THEN m
    ELSE LET e == Head(elements)
         IN  CASE e.t = "array" /\ Len(e.s) >= 2 /\ IsString(e.s[1]) ->
                MapEntries(Tail(elements), MapSet(m, e.s[1].s, EntryOf(e.s[2])))

\* new Map(v) when it does not throw
MapOf(v) == IF v.t = "array" THEN MapEntries(v.s, <<>>) ELSE <<>>

\* new Set(v || []) throws a TypeError: v is truthy and not iterable
SetThrows(v) == Truthy(v) /\ v.t \in {"number", "boolean", "object"}

\* new Set(v || []) when it does not throw
SetOf(v) ==
    IF v.t = "array" THEN {ToText(v.s[i]) : i \in 1..Len(v.s)}
    ELSE IF v.t = "string" THEN {<<v.s[i]>> : i \in 1..Len(v.s)}
    ELSE {}

\* the statements of loadFromStorage after JSON.parse has returned p
LoadParsed(s, p) ==
    LET w == Field(p, NameWal)
    IN  IF p.t = "null" THEN s                  \* reading .store of null throws
        ELSE IF MapThrows(Field(p, NameStore)) THEN s
        ELSE IF SetThrows(Field(p, NameEncryptedKeys))
        THEN [s EXCEPT !.store = MapOf(Field(p, NameStore))]
        ELSE [s EXCEPT
                !.store = MapOf(Field(p, NameStore)),
                !.encryptedKeys = SetOf(Field(p, NameEncryptedKeys)),
                !.wal = CASE ~Truthy(w) -> <<>>
                          [] w.t = "array" -> [i \in 1..Len(w.s) |-> WalOf(w.s[i])]]

\* what loadFromStorage does with the result r of JSON.parse
LoadResult(s, r) == IF r.ok THEN LoadParsed(s, r.v) ELSE s

\* a changed loadFromStorage: a timeout is set for every entry it restores
loadFromStorageArmed(s, text) ==
    LET r == IF text = <<>> THEN s ELSE LoadResult(s, JsonParse(text))
    IN  [r EXCEPT !.timers =
            [i \in 1..Len(r.store) |->
                [key |-> r.store[i].key, due |-> 0, stale |-> FALSE]]]

\* loadFromStorage(): the fields after it; text is what getItem returns.
\* Every exception ends in the catch block, which only logs: the fields set
\* before the statement that threw stay set.
loadFromStorage(s, text) ==
    IF text = <<>> THEN s ELSE LoadResult(s, JsonParse(text))

\* ------------------------------------------------------------------- batch
\* one operation of a batch: [op, key, value, ttl]
BatchOp(op, key, value, ttl) == [op |-> op, key |-> key, value |-> value, ttl |-> ttl]

\* a changed batch: the ttl of a PUT is not handed on
applyOpNoTtl(s, now, op) ==
    IF op.op = "PUT" THEN put(s, now, op.key, op.value, NoOptions)
    ELSE IF op.op = "GET" THEN
        LET r == get(s, now, op.key) IN Result(r.s, r.ret, TRUE, r.threw)
    ELSE IF op.op = "DELETE" THEN delete(s, now, op.key)
    ELSE IF op.op = "EXISTS" THEN exists(s, now, op.key)
    ELSE Result(s, Null, FALSE, FALSE)

\* the switch of batch: the call made for one operation; ret is the value of
\* a GET, ok the success flag (the exists flag for EXISTS)
applyOp(s, now, op) ==
    IF op.op = "PUT" THEN
        put(s, now, op.key, op.value,
            [ttl |-> op.ttl, encrypted |-> FALSE, compress |-> FALSE])
    ELSE IF op.op = "GET" THEN
        LET r == get(s, now, op.key) IN Result(r.s, r.ret, TRUE, r.threw)
    ELSE IF op.op = "DELETE" THEN delete(s, now, op.key)
    ELSE IF op.op = "EXISTS" THEN exists(s, now, op.key)
    ELSE Result(s, Null, FALSE, FALSE)

\* a changed batch: the value of a GET is left out of its result
BatchResultNoValue(op, r) ==
    [op |-> op,
     success |-> IF op.op = "EXISTS" THEN TRUE ELSE r.ok,
     value |-> Undefined,
     exists |-> op.op = "EXISTS" /\ r.ok]

\* results.push({ ...op, result })
BatchResult(op, r) ==
    [op |-> op,
     success |-> IF op.op = "EXISTS" THEN TRUE ELSE r.ok,
     value |-> IF op.op = "GET" THEN r.ret ELSE Undefined,
     exists |-> op.op = "EXISTS" /\ r.ok]

RECURSIVE BatchLoop(_, _, _, _)
\* the for loop inside the try block: it ends at the first call that throws
BatchLoop(s, now, ops, results) ==
    IF ops = <<>> THEN [s |-> s, results |-> results, success |-> TRUE]
    ELSE LET r == applyOp(s, now, Head(ops))
         IN  IF r.threw THEN [s |-> r.s, results |-> results, success |-> FALSE]
             ELSE BatchLoop(r.s, now, Tail(ops),
                            Append(results, BatchResult(Head(ops), r)))

\* a changed batch: a failed batch is rolled back
batchRollback(s, now, operations) ==
    LET b == BatchLoop(s, now, operations, <<>>)
    IN  IF b.success THEN b ELSE [b EXCEPT !.s = s]

batch(s, now, operations) == BatchLoop(s, now, operations, <<>>)

\* ------------------------------------------------------------------ inputs
Keys == {<<97>>, <<98>>}                       \* "a", "b"
EmptyKey == <<>>                               \* ""
TextX == Str(<<120>>)                          \* "x"
TextY == Str(<<121>>)                          \* "y"
TextRun == Str(<<97, 97, 97, 97>>)             \* "aaaa"

\* one key more than the largest cache holds: "a", "b", "c", ...
CacheKeys == {<<96 + i>> : i \in 1..(MaxCacheSize + 1)}

\* the keys the queries run over: "a" to "e" and "ab"
QueryKeys == {<<97>>, <<98>>, <<99>>, <<100>>, <<101>>, <<97, 98>>}
AllKeys == (Keys \cup CacheKeys) \cup QueryKeys

\* ------------------------------------------------------------------- state
VARIABLES
    store,          \* this.store
    cache,          \* this.cache
    cacheSize,      \* this.cacheSize
    wal,            \* this.wal
    encryptedKeys,  \* this.encryptedKeys
    timers,         \* callbacks registered with setTimeout and not yet run
    blob,           \* localStorage item 'kvstore-pro'
    storageFull,    \* localStorage.setItem throws (quota exceeded)
    stats,          \* this.stats: the running counters
    queryHistory,   \* this.queryHistory
    now,            \* Date.now()
    last,           \* history: the latest call, its arguments and what it returned
    ref             \* history: per key, the latest put or delete the client made

vars ==
    <<store, cache, cacheSize, wal, encryptedKeys, timers, blob, storageFull,
      stats, queryHistory, now, last, ref>>

Eng ==
    [store |-> store, cache |-> cache, cacheSize |-> cacheSize, wal |-> wal,
     encryptedKeys |-> encryptedKeys, timers |-> timers, blob |-> blob,
     storageFull |-> storageFull, stats |-> stats, queryHistory |-> queryHistory]

Commit(s) ==
    /\ store' = s.store
    /\ cache' = s.cache
    /\ cacheSize' = s.cacheSize
    /\ wal' = s.wal
    /\ encryptedKeys' = s.encryptedKeys
    /\ timers' = s.timers
    /\ blob' = s.blob
    /\ storageFull' = s.storageFull
    /\ stats' = s.stats
    /\ queryHistory' = s.queryHistory

\* the fields of the object are those of the record s
Holds(s) ==
    /\ store = s.store
    /\ cache = s.cache
    /\ cacheSize = s.cacheSize
    /\ wal = s.wal
    /\ encryptedKeys = s.encryptedKeys
    /\ timers = s.timers
    /\ blob = s.blob
    /\ storageFull = s.storageFull
    /\ stats = s.stats
    /\ queryHistory = s.queryHistory

Absent == [value |-> Undefined, expiry |-> 0]

\* history of an iteration with scan: the options of its first call, the
\* calls made so far, the pages they returned one after the other
NoScan == [count |-> 0, match |-> <<>>, calls |-> 0, keys |-> <<>>]

Call(op, key, value, options, r) ==
    [op |-> op, key |-> key, value |-> value, options |-> options,
     ret |-> r.ret, ok |-> r.ok, threw |-> r.threw, stale |-> FALSE,
     ops |-> <<>>, results |-> <<>>, format |-> "", scan |-> NoScan]

NoCall == Call("none", EmptyKey, Undefined, NoOptions, Result(<<>>, Null, FALSE, FALSE))

\* the fields new TinyKVStorePro() sets, with nothing in localStorage
NewEngine(size) ==
    [store |-> <<>>, cache |-> <<>>, cacheSize |-> size, wal |-> <<>>,
     encryptedKeys |-> {}, timers |-> <<>>, blob |-> EmptyBlob,
     storageFull |-> FALSE, stats |-> ZeroStats, queryHistory |-> <<>>]

\* new TinyKVStorePro() in a page whose localStorage holds item, with the
\* cacheSize the client has given it: the fields of the constructor, then
\* loadFromStorage()
construct(size, item, full) ==
    loadFromStorage([NewEngine(size) EXCEPT !.blob = item, !.storageFull = full],
                    ItemText(item))

\* the engine after new TinyKVStorePro() with nothing in localStorage, and
\* with the cacheSize the client has given it
Constructed(size) ==
    /\ Holds([NewEngine(size) EXCEPT !.stats = StatsOff])
    /\ now = 0
    /\ last = NoCall
    /\ ref = [k \in AllKeys |-> Absent]

Init == Constructed(DefaultCacheSize)

\* kvStore.cacheSize = size, set before the first call
InitSized == \E size \in 1..MaxCacheSize : Constructed(size)

\* the same engine with its counters followed from zero
InitCounted ==
    /\ Holds(NewEngine(DefaultCacheSize))
    /\ now = 0
    /\ last = NoCall
    /\ ref = [k \in AllKeys |-> Absent]

\* ----------------------------------------------------------------- actions
RefPut(r, k, v, ttl) ==
    [r EXCEPT ![k] = [value |-> v,
                      expiry |-> IF ttl > 0 THEN now + ttl * MsPerSecond ELSE 0]]

Horizon == MaxTicks * MsPerSecond

\* a ttl put is taken while its timer fits the bounds of the model
TtlFits(ttl) ==
    ttl > 0 => (Len(timers) < MaxTimers /\ now + ttl * MsPerSecond <= Horizon)

\* the client calls put(k, v, o)
PutCall(k, v, o) ==
    /\ LET r == put(Eng, now, k, v, o)
       IN  /\ Commit(r.s)
           /\ last' = Call("put", k, v, o, r)
           /\ ref' = IF r.threw THEN ref ELSE RefPut(ref, k, v, o.ttl)
    /\ UNCHANGED now

PutAct(k, v, o) ==
    /\ Len(wal) < MaxWal
    /\ TtlFits(o.ttl)
    /\ PutCall(k, v, o)

PutEncryptedAct(k, v, ttl) ==
    /\ Len(wal) < MaxWal
    /\ TtlFits(ttl)
    /\ LET r == putEncrypted(Eng, now, k, v, ttl)
       IN  /\ Commit(r.s)
           /\ last' = Call("putEncrypted", k, v,
                           [ttl |-> ttl, encrypted |-> TRUE, compress |-> FALSE], r)
           /\ ref' = IF r.threw THEN ref ELSE RefPut(ref, k, v, ttl)
    /\ UNCHANGED now

GetAct(k) ==
    /\ LET r == get(Eng, now, k)
       IN  /\ Commit(r.s)
           /\ last' = Call("get", k, Undefined, NoOptions, r)
    /\ UNCHANGED <<now, ref>>

\* a get is taken while the counters fit the bounds of the model
CountedGetAct(k) ==
    /\ stats.cacheHits + stats.cacheMisses < MaxGets
    /\ GetAct(k)

\* the client puts a key the store does not hold, while the store is small
FreshPutAct(k, v) ==
    /\ Len(store) < MaxKeys
    /\ ~Has(store, k)
    /\ PutCall(k, v, NoOptions)

\* the client starts an iteration: scan(0, {count, match})
ScanStartAct(count, match) ==
    /\ \E r \in {scan(Eng, 0, count, match)} :
           last' = [Call("scan", match, Undefined, NoOptions, Result(Eng, r, TRUE, FALSE))
                       EXCEPT !.scan = [count |-> count, match |-> match,
                                        calls |-> 1, keys |-> r.keys]]
    /\ UNCHANGED <<store, cache, cacheSize, wal, encryptedKeys, timers, blob,
                   storageFull, stats, queryHistory, now, ref>>

\* the client goes on with the cursor the latest scan returned; any other
\* call in between ends the iteration
ScanNextAct ==
    /\ last.op = "scan"
    /\ last.ret.cursor # 0
    /\ \E r \in {scan(Eng, last.ret.cursor, last.scan.count, last.scan.match)} :
           last' = [last EXCEPT !.ret = r,
                                !.scan.calls = @ + 1,
                                !.scan.keys = @ \o r.keys]
    /\ UNCHANGED <<store, cache, cacheSize, wal, encryptedKeys, timers, blob,
                   storageFull, stats, queryHistory, now, ref>>

\* the client calls rangeQuery(start, end)
RangeQueryAct(start, end) ==
    /\ last' = Call("rangeQuery", start, Str(end), NoOptions,
                    Result(Eng, rangeQuery(Eng, start, end), TRUE, FALSE))
    /\ UNCHANGED <<store, cache, cacheSize, wal, encryptedKeys, timers, blob,
                   storageFull, stats, queryHistory, now, ref>>

\* the client calls keysBySize(limit)
KeysBySizeAct(limit) ==
    /\ last' = Call("keysBySize", EmptyKey, Num(limit), NoOptions,
                    Result(Eng, keysBySize(Eng, limit), TRUE, FALSE))
    /\ UNCHANGED <<store, cache, cacheSize, wal, encryptedKeys, timers, blob,
                   storageFull, stats, queryHistory, now, ref>>

\* the client calls prefixSearch(prefix)
PrefixSearchAct(prefix) ==
    /\ last' = Call("prefixSearch", prefix, Undefined, NoOptions,
                    Result(Eng, prefixSearch(Eng, prefix), TRUE, FALSE))
    /\ UNCHANGED <<store, cache, cacheSize, wal, encryptedKeys, timers, blob,
                   storageFull, stats, queryHistory, now, ref>>

\* the client calls regexSearch(pattern)
RegexSearchAct(pattern) ==
    /\ last' = Call("regexSearch", pattern, Undefined, NoOptions,
                    Result(Eng, regexSearch(Eng, pattern), TRUE, FALSE))
    /\ UNCHANGED <<store, cache, cacheSize, wal, encryptedKeys, timers, blob,
                   storageFull, stats, queryHistory, now, ref>>

\* the client calls keys(pattern)
KeysAct(pattern) ==
    /\ last' = Call("keys", pattern, Undefined, NoOptions,
                    Result(Eng, keys(Eng, pattern), TRUE, FALSE))
    /\ UNCHANGED <<store, cache, cacheSize, wal, encryptedKeys, timers, blob,
                   storageFull, stats, queryHistory, now, ref>>

\* the client calls advancedQuery(type, pattern)
AdvancedQueryAct(type, pattern) ==
    /\ Len(queryHistory) < MaxQueries
    /\ \E r \in {advancedQuery(Eng, now, type, pattern)} :
           /\ Commit(r.s)
           /\ last' = [Call("advancedQuery", pattern, Undefined, NoOptions, r)
                          EXCEPT !.format = type]
    /\ UNCHANGED <<now, ref>>

\* the client calls getDecrypted(k)
GetDecryptedAct(k) ==
    /\ last' = Call("getDecrypted", k, Undefined, NoOptions,
                    Result(Eng, getDecrypted(Eng, k), TRUE, FALSE))
    /\ UNCHANGED <<store, cache, cacheSize, wal, encryptedKeys, timers, blob,
                   storageFull, stats, queryHistory, now, ref>>

\* the client calls delete(k)
DeleteCall(k) ==
    /\ LET r == delete(Eng, now, k)
       IN  /\ Commit(r.s)
           /\ last' = Call("delete", k, Undefined, NoOptions, r)
    /\ ref' = IF k \in AllKeys THEN [ref EXCEPT ![k] = Absent] ELSE ref
    /\ UNCHANGED now

DeleteAct(k) ==
    /\ Len(wal) < MaxWal
    /\ DeleteCall(k)

ExistsAct(k) ==
    /\ LET r == exists(Eng, now, k)
       IN  /\ Commit(r.s)
           /\ last' = Call("exists", k, Undefined, NoOptions, r)
    /\ UNCHANGED <<now, ref>>

ClearAct ==
    /\ Commit(clear(Eng))
    /\ last' = Call("clear", EmptyKey, Undefined, NoOptions,
                    Result(<<>>, Null, TRUE, FALSE))
    /\ ref' = [k \in AllKeys |-> Absent]
    /\ UNCHANGED now

\* the client calls export(format)
ExportAct(format) ==
    /\ \E r \in {export(Eng, now, format)} :
           /\ Commit(r.s)
           /\ last' = [Call("export", EmptyKey, Undefined, NoOptions, r)
                          EXCEPT !.format = format]
    /\ UNCHANGED <<now, ref>>

\* the client's latest write of each key after the puts that took an engine
\* with log before to the engine after
RefWritten(r, before, after) ==
    [k \in AllKeys |->
        IF \E i \in (Len(before) + 1)..Len(after.wal) : after.wal[i].key = k
        THEN [value |-> MapGet(after.store, k).value,
              expiry |-> MapGet(after.store, k).expiry]
        ELSE r[k]]

\* an import is taken while its puts fit the bounds of the model
ImportFits(s) ==
    /\ Len(s.wal) <= MaxWal
    /\ Len(s.timers) <= MaxTimers
    /\ \A i \in 1..Len(s.timers) : s.timers[i].due <= Horizon

\* the client calls import(data, format)
ImportAct(data, format) ==
    /\ \E r \in {import(Eng, now, data, format)} :
           /\ ImportFits(r.s)
           /\ Commit(r.s)
           /\ last' = [Call("import", EmptyKey, Str(data), NoOptions, r)
                          EXCEPT !.format = format]
           /\ ref' = RefWritten(ref, wal, r.s)
    /\ UNCHANGED now

\* the client runs  const d = export(format); clear(); import(d, format)
\* in one turn of the event loop; an exception of export ends the turn
RestoreAct(format) ==
    /\ \E x \in {export(Eng, now, format)} :
           IF x.threw
           THEN /\ Commit(x.s)
                /\ last' = [Call("restore", EmptyKey, Undefined, NoOptions, x)
                               EXCEPT !.format = format]
                /\ ref' = ref
           ELSE \E r \in {import(clear(Eng), now, x.ret.s, format)} :
                /\ ImportFits(r.s)
                /\ Commit(r.s)
                /\ last' = [Call("restore", EmptyKey, x.ret, NoOptions, r)
                               EXCEPT !.format = format]
                /\ ref' = RefWritten([k \in AllKeys |-> Absent], <<>>, r.s)
    /\ UNCHANGED now

\* localStorage starts or stops refusing writes (quota reached, space freed)
StorageAct ==
    /\ storageFull' = ~storageFull
    /\ last' = Call("storage", EmptyKey, Undefined, NoOptions,
                    Result(<<>>, Null, TRUE, FALSE))
    /\ UNCHANGED <<store, cache, cacheSize, wal, encryptedKeys, timers, blob,
                   stats, queryHistory, now, ref>>

\* something other than persist overwrites or removes the item
ForeignAct(text) ==
    /\ blob' = Foreign(text)
    /\ last' = Call("item", EmptyKey, Str(text), NoOptions,
                    Result(<<>>, Null, TRUE, FALSE))
    /\ UNCHANGED <<store, cache, cacheSize, wal, encryptedKeys, timers, storageFull,
                   stats, queryHistory, now, ref>>

\* the page is loaded again: the old object and its timers are gone, a new
\* TinyKVStorePro() reads the item
RestartAct ==
    /\ \E s \in {construct(cacheSize, blob, storageFull)} :
           Commit([s EXCEPT !.stats = resetStats(stats)])
    /\ last' = Call("restart", EmptyKey, Undefined, NoOptions,
                    Result(<<>>, Null, TRUE, FALSE))
    /\ UNCHANGED <<now, ref>>

\* the clock moves on by a second
Tick ==
    /\ now < Horizon
    /\ now' = now + MsPerSecond
    /\ last' = Call("tick", EmptyKey, Undefined, NoOptions,
                    Result(<<>>, Null, TRUE, FALSE))
    /\ UNCHANGED <<store, cache, cacheSize, wal, encryptedKeys, timers, blob,
                   storageFull, stats, queryHistory, ref>>

\* the timer the event loop runs next: the earliest due, the first registered
\* among equals
FirstDue ==
    CHOOSE i \in 1..Len(timers) :
        \A j \in 1..Len(timers) :
            \/ timers[i].due < timers[j].due
            \/ (timers[i].due = timers[j].due /\ i <= j)

RemoveAt(q, i) == SubSeq(q, 1, i - 1) \o SubSeq(q, i + 1, Len(q))

\* a changed callback: the entry is removed without a record in the log
timerCallbackSilent(s, at, key) ==
    Result([s EXCEPT !.store = MapDelete(@, key), !.cache = MapDelete(@, key),
                     !.encryptedKeys = @ \ {key}],
           Null, Has(s.store, key), FALSE)

\* the callback of a timer: () => this.delete(key)
timerCallback(s, at, key) == delete(s, at, key)

\* the event loop runs a due timer's callback
TimerAct ==
    /\ timers # <<>>
    /\ timers[FirstDue].due <= now
    /\ LET t == timers[FirstDue]
           r == timerCallback([Eng EXCEPT !.timers = RemoveAt(@, FirstDue)],
                              now, t.key)
       IN  /\ Commit(r.s)
           /\ last' = [Call("timer", t.key, Undefined, NoOptions, r)
                          EXCEPT !.stale = t.stale]
    /\ UNCHANGED <<now, ref>>

\* ------------------------------------------- the store as a plain map (C1, C2)
MapValues == {TextX, TextY, Null}

NextMap ==
    \/ \E k \in Keys \cup {EmptyKey}, v \in MapValues \cup {Undefined} :
          PutAct(k, v, NoOptions)
    \/ \E k \in Keys : GetAct(k)
    \/ \E k \in Keys : DeleteAct(k)
    \/ \E k \in Keys : ExistsAct(k)

SpecMap == InitSized /\ [][NextMap]_vars

\* the value a plain map holding the client's puts and deletes returns for k
RefValue(k) == IF ref[k].value = Undefined THEN Null ELSE ref[k].value

\* C1: a put of a non-empty key and a value, with no ttl, encrypted or
\* compress option, followed at once by get of that key, returns the value.
C1_PutGetRoundTrip ==
    (last.op = "put" /\ ~last.threw /\ last.options = NoOptions)
        => LET r == get(Eng, now, last.key)
           IN  ~r.threw /\ r.ret = last.value

\* a put has overwritten a key that was cached with another value
C1_Witness ==
    /\ last.op = "put" /\ ~last.threw /\ last.options = NoOptions
    /\ last.value = TextY
    /\ \E i \in 1..Len(wal) : wal[i].key = last.key /\ wal[i].value = TextX
    /\ get(Eng, now, last.key).ret = TextY

\* C2: with puts that carry no options, get(k) returns what a plain map
\* returns: the value of the latest put of k not followed by a delete of k,
\* null otherwise; so does every get that was actually served.
C2_PlainMapEquivalence ==
    /\ \A k \in Keys : LET r == get(Eng, now, k) IN ~r.threw /\ r.ret = RefValue(k)
    /\ last.op = "get" => (~last.threw /\ last.ret = RefValue(last.key))

\* a get of a key that was put, evicted from the cache by another put and
\* read back from the store; and a get of a deleted key
C2_Witness ==
    \/ /\ last.op = "get" /\ last.ret = TextX
       /\ cacheSize = 1 /\ Len(store) = 2
    \/ /\ last.op = "get" /\ last.ret = Null
       /\ \E i \in 1..Len(wal) : wal[i].op = "PUT" /\ wal[i].key = last.key
                                  /\ wal[i].value # Null

\* ------------------------------------------------- expiry (C3, C4, C5, C6)
TtlOptions == {[ttl |-> t, encrypted |-> FALSE, compress |-> FALSE] : t \in 0..MaxTTL}

NextTtl ==
    \/ \E k \in Keys, o \in TtlOptions : PutAct(k, TextX, o)
    \/ \E k \in Keys : GetAct(k)
    \/ \E k \in Keys : DeleteAct(k)
    \/ \E k \in Keys : ExistsAct(k)
    \/ Tick
    \/ TimerAct

SpecTtl == InitSized /\ [][NextTtl]_vars

\* writes and timers of two keys, without reads
NextTimer2 ==
    \/ \E k \in Keys, o \in TtlOptions : PutAct(k, TextX, o)
    \/ \E k \in Keys : DeleteAct(k)
    \/ Tick
    \/ TimerAct

SpecTimer == Init /\ [][NextTimer2]_vars

\* one key that is written and never read; time passes, and the event loop
\* runs every due timer
LiveKey == <<97>>

NextUnread ==
    \/ \E o \in TtlOptions : PutAct(LiveKey, TextX, o)
    \/ DeleteAct(LiveKey)
    \/ Tick
    \/ TimerAct

SpecUnread == Init /\ [][NextUnread]_vars /\ WF_vars(Tick) /\ WF_vars(TimerAct)

\* C3: a key put with a ttl and not written again (no later put, delete or
\* clear by the client) is returned by get before its expiry time and is
\* not found by get after it.
C3_TtlWindow ==
    \A k \in Keys :
        ref[k].expiry # 0 =>
            LET r == get(Eng, now, k)
            IN  /\ now < ref[k].expiry => r.ret = ref[k].value
                /\ now > ref[k].expiry => r.ret = Null

\* C4: the callback of a timer is a no-op when its key is no longer in the
\* store or a later put has written the key's entry.
C4_SupersededTimerIsNoOp ==
    [][(last'.op = "timer" /\ (last'.stale \/ ~Has(store, last'.key)))
          => UNCHANGED <<store, cache, encryptedKeys, wal>>]_vars

Wrote(k) == last.op \in {"put", "delete"} /\ last.key = k /\ ~last.threw
Gone(k) == ~Has(store, k) /\ ~Has(cache, k)

\* C6: once a key has been put with a ttl, it is in time absent from the
\* store and the cache, unless the client writes it again first; nobody needs
\* to read it.
C6_EventuallyExpired ==
    (ref[LiveKey].expiry # 0 /\ ~Wrote(LiveKey)) ~> (Gone(LiveKey) \/ Wrote(LiveKey))

\* a timer has removed a key that was put with a ttl and never read
C6_Witness ==
    /\ last.op = "timer" /\ ~last.stale /\ last.ok
    /\ ref[last.key].expiry # 0 /\ ref[last.key].expiry <= now
    /\ Gone(last.key)

\* ------------------------------------------------------ batch (C7, C8, C9)
KeyA == <<97>>
KeyB == <<98>>

BatchOps ==
    {BatchOp("PUT", KeyA, TextX, 0), BatchOp("PUT", KeyA, TextY, 1),
     BatchOp("PUT", KeyB, TextY, 0), BatchOp("PUT", KeyB, Undefined, 0),
     BatchOp("PUT", EmptyKey, TextX, 0),
     BatchOp("GET", KeyA, Undefined, 0), BatchOp("GET", KeyB, Undefined, 0),
     BatchOp("DELETE", KeyA, Undefined, 0), BatchOp("EXISTS", KeyA, Undefined, 0),
     BatchOp("TOUCH", KeyA, Undefined, 0)}

\* the operation lists of at most MaxBatch operations that fit the write log
BatchLists == UNION {[1..n -> BatchOps] : n \in 1..Min(MaxBatch, MaxWal - Len(wal))}

TtlPuts(ops) == {i \in 1..Len(ops) : ops[i].op = "PUT" /\ ops[i].ttl > 0}

RECURSIVE RefOps(_, _)
\* the client's puts and deletes among the operations of a batch
RefOps(r, ops) ==
    IF ops = <<>> THEN r
    ELSE LET op == Head(ops)
         IN  RefOps(IF op.op = "PUT" THEN RefPut(r, op.key, op.value, op.ttl)
                    ELSE IF op.op = "DELETE" THEN [r EXCEPT ![op.key] = Absent]
                    ELSE r,
                    Tail(ops))

BatchAct(ops) ==
    /\ Len(wal) + Len(ops) <= MaxWal
    /\ Len(timers) + Cardinality(TtlPuts(ops)) <= MaxTimers
    /\ \A i \in TtlPuts(ops) : now + ops[i].ttl * MsPerSecond <= Horizon
    /\ LET b == batch(Eng, now, ops)
       IN  /\ Commit(b.s)
           /\ last' = [Call("batch", EmptyKey, Undefined, NoOptions,
                            Result(<<>>, Null, b.success, ~b.success))
                          EXCEPT !.ops = ops, !.results = b.results]
           /\ ref' = RefOps(ref, SubSeq(ops, 1, Len(b.results)))
    /\ UNCHANGED now

\* some single puts, the passing of time and the running of timers, and then
\* one batch
BatchOptions == {[ttl |-> t, encrypted |-> FALSE, compress |-> FALSE] : t \in 0..1}

NextBatch ==
    \/ last.op # "batch" /\ \E k \in Keys, o \in BatchOptions : PutAct(k, TextX, o)
    \/ last.op # "batch" /\ Tick
    \/ last.op # "batch" /\ TimerAct
    \/ last.op # "batch" /\ \E ops \in BatchLists : BatchAct(ops)

SpecBatch == Init /\ [][NextBatch]_vars

RECURSIVE Calls(_, _, _)
\* the calls of a list of operations made one after another, up to the first
\* that throws
Calls(s, at, ops) ==
    IF ops = <<>> THEN [s |-> s, threw |-> FALSE]
    ELSE LET r == applyOp(s, at, Head(ops))
         IN  IF r.threw THEN [s |-> r.s, threw |-> TRUE]
             ELSE Calls(r.s, at, Tail(ops))

\* C7: batch is atomic; when it returns success = false the store, the
\* cache, the encrypted key set and the write log are as before the call.
C7_BatchAtomic ==
    [][(last'.op = "batch" /\ ~last'.ok)
          => UNCHANGED <<store, cache, encryptedKeys, wal>>]_vars

C9_BatchResults ==
    (last.op = "batch" /\ last.ok) =>
        /\ Len(last.results) = Len(last.ops)
        /\ \A i \in 1..Len(last.ops) :
              /\ last.results[i].op = last.ops[i]
              /\ last.ops[i].op = "GET" =>
                    \A j \in 1..(i - 1) :
                        (/\ last.ops[j].op = "PUT"
                         /\ last.ops[j].key = last.ops[i].key
                         /\ \A m \in (j + 1)..(i - 1) :
                               ~(last.ops[m].op \in {"PUT", "DELETE"}
                                 /\ last.ops[m].key = last.ops[i].key))
                        => last.results[i].value = last.ops[j].value

\* PUT a, PUT b, GET a has returned three results, the third with a's value
C9_Witness ==
    /\ last.op = "batch" /\ last.ok
    /\ last.ops = <<BatchOp("PUT", KeyA, TextX, 0), BatchOp("PUT", KeyB, TextY, 0),
                    BatchOp("GET", KeyA, Undefined, 0)>>
    /\ Len(last.results) = 3
    /\ last.results[3].value = TextX

\* ------------------------------------------- the engine with options (C10)
AllOptions ==
    {[ttl |-> 0, encrypted |-> e, compress |-> c] : e \in BOOLEAN, c \in BOOLEAN}

Values == {TextX, TextRun, Null}

Next ==
    \/ \E k \in Keys, v \in Values, o \in AllOptions : PutAct(k, v, o)
    \/ \E k \in Keys, v \in Values : PutEncryptedAct(k, v, 0)
    \/ \E k \in Keys : GetAct(k)
    \/ \E k \in Keys : DeleteAct(k)
    \/ ClearAct

Spec == Init /\ [][Next]_vars

EncryptedEntries == {k \in MapKeys(store) : MapGet(store, k).encrypted}

\* C10: the encrypted key set is the set of the keys whose entry in the
\* store has encrypted = true.
C10_EncryptedKeySetConsistent == encryptedKeys = EncryptedEntries

\* ------------------------------------------------------ the write log (C11)
RECURSIVE Puts(_, _, _, _, _)
\* the engine after n more calls put(key, value), made one after another:
\* the first half of the calls, then the rest (a put never shortens the log)
Puts(s, at, key, value, n) ==
    IF n = 0 THEN s
    ELSE IF n = 1 THEN put(s, at, key, value, NoOptions).s
    ELSE LET half == Puts(s, at, key, value, n \div 2)
         IN  CASE Len(half.wal) >= Len(s.wal) ->
                    Puts(half, at, key, value, n - (n \div 2))

\* a fresh engine that has served put('b', 'x') and then put('a', 'x') until
\* its log holds WalTail records
InitLog ==
    /\ Holds(Puts(put([NewEngine(DefaultCacheSize) EXCEPT !.stats = StatsOff],
                       0, KeyB, TextX, NoOptions).s,
                  0, KeyA, TextX, WalTail - 1))
    /\ now = 0
    /\ last = Call("put", KeyA, TextX, NoOptions, Result(<<>>, Null, TRUE, FALSE))
    /\ ref = [k \in AllKeys |->
                IF k \in Keys THEN [value |-> TextX, expiry |-> 0] ELSE Absent]

NextLog ==
    \/ \E k \in Keys, v \in {TextX, TextY} :
          Len(wal) < WalTail + MaxWal /\ PutCall(k, v, NoOptions)
    \/ \E k \in Keys : Len(wal) < WalTail + MaxWal /\ DeleteCall(k)
    \/ \E k \in Keys : GetAct(k)

SpecLog == InitLog /\ [][NextLog]_vars

\* C11: the write log never holds more than 1000 records; when a record is
\* appended to a log of 1000 records, the oldest record leaves the log.
C11_WalBounded ==
    [][/\ Len(wal') <= WalTail
       /\ (Len(wal) = WalTail /\ wal' # wal)
             => wal' = Append(Tail(wal), wal'[Len(wal')])]_vars

\* ------------------------------------------------- the cache (C12, C13)
\* puts of keys that are not in the store yet, and reads
NextCache ==
    \/ \E k \in CacheKeys, v \in {TextX, TextY} :
          ~Has(store, k) /\ PutAct(k, v, NoOptions)
    \/ \E k \in CacheKeys : GetAct(k)

SpecCache == InitSized /\ [][NextCache]_vars

KeyOrder(m) == [i \in 1..Len(m) |-> m[i].key]

C13_LruEviction ==
    [][(/\ last.op \in {"get", "put"} /\ ~last.threw /\ Has(cache, last.key)
        /\ last'.op = "put" /\ ~last'.threw /\ ~Has(store, last'.key)
        /\ Len(cache) >= cacheSize /\ cacheSize >= 2)
          => Has(cache', last.key)]_vars

\* ------------------------------------------------------- delete (C14)
\* plain and encrypted puts, reads and deletes
DeleteOptions == {[ttl |-> 0, encrypted |-> e, compress |-> FALSE] : e \in BOOLEAN}

NextDelete ==
    \/ \E k \in Keys, v \in {TextX, Null}, o \in DeleteOptions : PutAct(k, v, o)
    \/ \E k \in Keys : GetAct(k)
    \/ \E k \in Keys : DeleteAct(k)
    \/ \E k \in Keys : ExistsAct(k)

SpecDelete == InitSized /\ [][NextDelete]_vars

\* C14: delete(k) of a key in the store returns success = true and removes k
\* from the store, the cache and the encrypted key set; the entries of every
\* other key in the store and in the cache stay as they were; right after
\* it get(k) returns null and exists(k) returns false.
C14_DeleteRemoves ==
    [][(last'.op = "delete" /\ Has(store, last'.key)) =>
          LET k == last'.key
          IN  /\ last'.ok /\ ~last'.threw
              /\ ~Has(store', k) /\ ~Has(cache', k) /\ k \notin encryptedKeys'
              /\ \A j \in Keys \ {k} :
                    /\ Has(store', j) = Has(store, j)
                    /\ Has(store, j) => MapGet(store', j) = MapGet(store, j)
                    /\ Has(cache', j) = Has(cache, j)
                    /\ Has(cache, j) => MapGet(cache', j) = MapGet(cache, j)
                    /\ (j \in encryptedKeys') = (j \in encryptedKeys)
              /\ LET r == get(Eng', now', k) IN ~r.threw /\ r.ret = Null
              /\ LET e == exists(Eng', now', k) IN ~e.threw /\ ~e.ok]_vars

\* a key stored encrypted has been deleted while another key stays stored
C14_Witness ==
    /\ last.op = "delete" /\ last.ok
    /\ \E i \in 1..Len(wal) :
          wal[i].op = "PUT" /\ wal[i].key = last.key /\ wal[i].options.encrypted
    /\ last.key \notin encryptedKeys
    /\ ~Has(store, last.key) /\ ~Has(cache, last.key)
    /\ Len(store) = 1 /\ Len(cache) = 1

\* ------------------------------------------------- a missing key (C17)
\* C17: for a key that is not in the store, get returns null, delete returns
\* success = false and exists returns false; none of them throws, and none
\* changes the store, the cache or the encrypted key set.
C17_MissingKey ==
    [][(last'.op \in {"get", "delete", "exists"} /\ ~Has(store, last'.key))
          => /\ ~last'.threw
             /\ last'.ret = Null
             /\ ~last'.ok
             /\ UNCHANGED <<store, cache, encryptedKeys>>]_vars

\* a key that was stored and deleted has been deleted once more
C17_Witness ==
    /\ last.op = "delete" /\ ~last.ok /\ ~last.threw
    /\ Len(wal) = 3
    /\ wal[1].op = "PUT" /\ wal[1].key = last.key /\ wal[1].options.encrypted
    /\ wal[2].op = "DELETE" /\ wal[2].key = last.key
    /\ wal[3].op = "DELETE" /\ wal[3].key = last.key

\* ------------------------------------------------------- exists (C15)
\* puts of a with and without a ttl, puts of b without, existence checks,
\* the clock and the timers
NextExists ==
    \/ \E o \in TtlOptions : PutAct(KeyA, TextX, o)
    \/ PutAct(KeyB, TextX, NoOptions)
    \/ \E k \in Keys : ExistsAct(k)
    \/ Tick
    \/ TimerAct

SpecExists == Init /\ [][NextExists]_vars

\* the entry of k is in the store and its expiry time has not passed
Live(k) ==
    /\ Has(store, k)
    /\ ~(MapGet(store, k).expiry # 0 /\ MapGet(store, k).expiry < now)

\* C15: exists(k) returns true exactly when k is in the store and its entry
\* has not expired at the time of the call; on an expired entry it returns
\* false and k leaves the store and the cache; on a live entry and on an
\* absent key it changes no state.
C15_ExistsLazyDelete ==
    [][last'.op = "exists" =>
          LET k == last'.key
          IN  /\ ~last'.threw
              /\ last'.ok = Live(k)
              /\ (Has(store, k) /\ ~Live(k)) => (~Has(store', k) /\ ~Has(cache', k))
              /\ (Live(k) \/ ~Has(store, k))
                    => UNCHANGED <<store, cache, cacheSize, wal, encryptedKeys,
                                   timers, blob, storageFull>>]_vars

\* exists has found an expired entry before its timer ran, and removed it
C15_Witness ==
    /\ last.op = "exists" /\ ~last.ok
    /\ ref[last.key].expiry # 0 /\ ref[last.key].expiry < now
    /\ \E i \in 1..Len(timers) : timers[i].key = last.key /\ ~timers[i].stale
    /\ wal # <<>> /\ wal[Len(wal)].op = "DELETE" /\ wal[Len(wal)].key = last.key
    /\ ~Has(store, last.key) /\ ~Has(cache, last.key)

\* ------------------------------------------------ invalid arguments (C16)
\* every combination of the options, with a ttl of 0 or 1 second
ArgOptions ==
    {[ttl |-> t, encrypted |-> e, compress |-> c] :
        t \in 0..1, e \in BOOLEAN, c \in BOOLEAN}

\* puts of one key, of the empty key and of an absent value, and reads
NextArgs ==
    \/ \E k \in {KeyA, EmptyKey}, v \in {TextX, Undefined}, o \in ArgOptions :
          PutAct(k, v, o)
    \/ \E k \in {KeyA, EmptyKey}, v \in {TextX, Undefined} :
          PutEncryptedAct(k, v, 0)
    \/ GetAct(KeyA)

SpecArgs == Init /\ [][NextArgs]_vars

\* C16: put with an empty key or an absent value throws, whatever the
\* options; store, cache, encrypted key set, write log and persisted blob
\* stay as they were and no timer is scheduled.
C16_InvalidPutRejected ==
    [][(/\ last'.op \in {"put", "putEncrypted"}
        /\ (last'.key = EmptyKey \/ last'.value = Undefined))
          => /\ last'.threw
             /\ UNCHANGED <<store, cache, encryptedKeys, wal, blob, timers>>]_vars

\* a put of an absent value with all options set has thrown on an engine
\* that holds an entry
C16_Witness ==
    /\ last.op = "put" /\ last.threw
    /\ last.key = KeyA /\ last.value = Undefined
    /\ last.options = [ttl |-> 1, encrypted |-> TRUE, compress |-> TRUE]
    /\ Has(store, KeyA) /\ timers = <<>>

\* ------------------------------------------- a failing snapshot write (C20)
\* writes of one key, plain and encrypted, while the medium comes and goes
NextPersist ==
    \/ \E k \in {KeyA, EmptyKey}, o \in DeleteOptions : PutAct(k, TextX, o)
    \/ DeleteAct(KeyA)
    \/ ClearAct
    \/ StorageAct

SpecPersist == Init /\ [][NextPersist]_vars

\* what the call the client made returns on an engine s: its result and
\* the engine after it
Served(s, call) ==
    IF call.op = "put" THEN put(s, now, call.key, call.value, call.options)
    ELSE IF call.op = "delete" THEN delete(s, now, call.key)
    ELSE Result(clear(s), Null, TRUE, FALSE)

DocOne == <<91, 123, 34, 107, 101, 121, 34, 58, 34, 97, 34, 44, 34, 118, 97, 108, 117, 101, 34, 58, 34, 120, 34, 125, 93>>
    \* [{"key":"a","value":"x"}]
DocNullRecord == <<91, 123, 34, 107, 101, 121, 34, 58, 34, 97, 34, 44, 34, 118, 97, 108, 117, 101, 34, 58, 34, 120, 34, 125, 44, 110, 117, 108, 108, 93>>
    \* [{"key":"a","value":"x"},null]
DocObject == <<123, 34, 107, 101, 121, 34, 58, 34, 97, 34, 44, 34, 118, 97, 108, 117, 101, 34, 58, 34, 120, 34, 125>>
    \* {"key":"a","value":"x"}
DocCut == <<91, 123, 34, 107, 101, 121, 34, 58, 34, 97, 34, 44, 34, 118, 97, 108, 117, 101, 34, 58, 34, 120, 34, 125, 44>>
    \* [{"key":"a","value":"x"},
DocTtl == <<91, 123, 34, 107, 101, 121, 34, 58, 34, 98, 34, 125, 44, 123, 34, 107, 101, 121, 34, 58, 34, 98, 34, 44, 34, 118, 97, 108, 117, 101, 34, 58, 34, 121, 34, 44, 34, 116, 116, 108, 34, 58, 49, 125, 93>>
    \* [{"key":"b"},{"key":"b","value":"y","ttl":1}]
DocCsv == <<75, 101, 121, 44, 86, 97, 108, 117, 101, 10, 34, 98, 34, 44, 34, 121, 34, 10, 34, 97, 34>>
    \* Key,Value / "b","y" / "a"
DocTxt == <<97, 32, 61, 32, 120, 10, 98>>
    \* a = x / b

\* the data and the format of the imports made
ImportInputs ==
    {<<d, "json">> : d \in {DocOne, DocNullRecord, DocObject, DocCut, DocTtl, DocCsv}}
    \cup {<<DocCsv, "csv">>, <<DocTxt, "txt">>, <<DocOne, "xml">>}

NextImport ==
    \/ \E k \in Keys : PutAct(k, TextY, NoOptions)
    \/ \E k \in Keys : GetAct(k)
    \/ \E i \in ImportInputs : ImportAct(i[1], i[2])

SpecImport == Init /\ [][NextImport]_vars

\* C18: an import that returns success = false has had no effect: store,
\* cache, encrypted key set and write log are as before the call.
C18_FailedImportNoEffect ==
    [][(last'.op = "import" /\ ~last'.ok)
          => UNCHANGED <<store, cache, encryptedKeys, wal>>]_vars

\* ------------------------------------------- export and import again (C19)
TextComma == Str(<<120, 44, 121>>)             \* "x,y"

\* plain, encrypted and expiring entries
RestoreOptions ==
    {NoOptions, [ttl |-> 0, encrypted |-> TRUE, compress |-> FALSE],
     [ttl |-> 1, encrypted |-> FALSE, compress |-> FALSE]}

NextRestore ==
    \/ \E k \in Keys, v \in {TextX, TextComma}, o \in RestoreOptions : PutAct(k, v, o)
    \/ \E f \in {"csv", "json"} : ExportAct(f)
    \/ \E f \in {"csv", "json"} : RestoreAct(f)

SpecRestore == Init /\ [][NextRestore]_vars

\* the value export and get decode from the entry of k
Logical(m, k) == processValue(MapGet(m, k).value, MapGet(m, k))

\* C19: export('csv'), then clear(), then import of the exported text as
\* 'csv' gives a store with the same keys and the same decoded value for
\* every key as before the export.
C19_CsvRoundTrip ==
    [][(last'.op = "restore" /\ last'.format = "csv")
          => /\ ~last'.threw /\ last'.ok
             /\ MapKeys(store') = MapKeys(store)
             /\ \A k \in MapKeys(store) : Logical(store', k) = Logical(store, k)]_vars

\* ------------------------------------------- a new instance (C21, C22)
ItemCut == <<123, 34, 115, 116, 111, 114, 101, 34, 58>>
    \* {"store":
ItemBadStore == <<123, 34, 115, 116, 111, 114, 101, 34, 58, 53, 125>>
    \* {"store":5}
ItemBadKeys == <<123, 34, 115, 116, 111, 114, 101, 34, 58, 91, 91, 34, 97, 34, 44, 123, 34, 118, 97, 108, 117, 101, 34, 58, 34, 120, 34, 44, 34, 116, 105, 109, 101, 115, 116, 97, 109, 112, 34, 58, 48, 44, 34, 101, 110, 99, 114, 121, 112, 116, 101, 100, 34, 58, 102, 97, 108, 115, 101, 44, 34, 99, 111, 109, 112, 114, 101, 115, 115, 101, 100, 34, 58, 102, 97, 108, 115, 101, 125, 93, 93, 44, 34, 101, 110, 99, 114, 121, 112, 116, 101, 100, 75, 101, 121, 115, 34, 58, 53, 125>>
    \* {"store":[["a",{"value":"x","timestamp":0,"encrypted":false,"compressed":false}]],"encryptedKeys":5}

\* items that are missing (no text), unparsable, or parsable with a
\* malformed part
CorruptItems == {<<>>, ItemCut, TextNull, ItemBadStore, ItemBadKeys}

LoadOptions ==
    {NoOptions, [ttl |-> 0, encrypted |-> TRUE, compress |-> FALSE]}

NextLoad ==
    \/ \E k \in Keys, o \in LoadOptions : PutAct(k, TextX, o)
    \/ \E k \in Keys : GetAct(k)
    \/ \E text \in CorruptItems : ForeignAct(text)
    \/ RestartAct

SpecLoad == Init /\ [][NextLoad]_vars

\* C21: a new instance that finds the item missing or corrupt is constructed
\* without failing and has an empty store, an empty encrypted key set and
\* an empty write log.
C21_CorruptLoadsEmpty ==
    [][(last'.op = "restart" /\ "text" \in DOMAIN blob)
          => (store' = <<>> /\ encryptedKeys' = {} /\ wal' = <<>>)]_vars

TextQuote == Str(<<97, 34, 98>>)               \* 'a"b'

RestartOptions == [ttl |-> 1, encrypted |-> TRUE, compress |-> FALSE]

NextRestart ==
    \/ PutAct(KeyA, TextQuote, RestartOptions)
    \/ DeleteAct(KeyA)
    \/ ClearAct
    \/ StorageAct
    \/ RestartAct

SpecRestart == Init /\ [][NextRestart]_vars

\* the step was a put, delete or clear that ran to its end: a put that
\* returned, a delete by the client, by a timer or by a read that found the
\* entry expired, a clear
Mutated ==
    \/ last'.op = "put" /\ ~last'.threw
    \/ last'.op \in {"delete", "timer", "clear"}
    \/ last'.op \in {"get", "exists"} /\ wal' # wal

ClearOptions ==
    {NoOptions, [ttl |-> 0, encrypted |-> TRUE, compress |-> FALSE]}

NextClear ==
    \/ \E o \in ClearOptions : PutAct(KeyA, TextX, o)
    \/ CountedGetAct(KeyA)
    \/ AdvancedQueryAct(TypePrefix, KeyA)
    \/ StorageAct
    \/ ClearAct

SpecClear == InitCounted /\ [][NextClear]_vars

\* what clear leaves in memory, and what the reads that follow it return
Cleared ==
    /\ store' = <<>>
    /\ cache' = <<>>
    /\ encryptedKeys' = {}
    /\ wal' = <<>>
    /\ queryHistory' = <<>>
    /\ stats' = ZeroStats
    /\ \A k \in Keys :
          /\ get(Eng', now', k).ret = Null
          /\ ~exists(Eng', now', k).ok

ScanPatterns == {<<42>>, <<97, 42>>, <<63>>, <<>>, <<122>>}   \* '*', 'a*', '?', '', 'z'

NextScan ==
    \/ \E k \in QueryKeys : FreshPutAct(k, TextX)
    \/ \E count \in 1..MaxCount, match \in ScanPatterns : ScanStartAct(count, match)
    \/ ScanNextAct

SpecScan == Init /\ [][NextScan]_vars

\* the keys of the store the pattern matches, in the order of the store
Matching(match) ==
    SelectSeq(StoreKeys(Eng),
              LAMBDA k : GlobMatch(IF match = <<>> THEN TextStar ELSE match, k))

\* the calls an iteration over n keys takes: max(1, ceil(n / count))
ScanCalls(n, count) ==
    IF n = 0 THEN 1 ELSE (n + count - 1) \div count

\* C24: an iteration that starts with scan(0, {count, match}) and goes on with
\* the cursor returned, the store unchanged, gets cursor 0 at call
\* max(1, ceil(n / count)) and not before, n being the number of matching keys;
\* the pages put together are the matching keys in the order of the store,
\* each once.
C24_ScanPages ==
    last.op = "scan" =>
        LET all == Matching(last.scan.match)
            calls == ScanCalls(Len(all), last.scan.count)
        IN  /\ last.scan.calls <= calls
            /\ (last.ret.cursor = 0) = (last.scan.calls = calls)
            /\ last.scan.keys = SubSeq(all, 1, Min(Len(all), last.scan.calls * last.scan.count))
            /\ last.ret.cursor = 0 => last.scan.keys = all

\* an iteration of three calls has ended, its pattern leaving a key out
C24_Witness ==
    /\ last.op = "scan"
    /\ last.ret.cursor = 0
    /\ last.scan.calls = 3
    /\ Len(last.scan.keys) < Len(store)
    /\ last.scan.keys # <<>>

\* ------------------------------------------ putEncrypted, getDecrypted (C25)
TextEmpty == Str(<<>>)                         \* ""
TextEuro == Str(<<8364>>)                      \* "\u20ac", the euro sign
EncryptedValues == {TextX, TextEmpty, TextEuro}

NextEncrypted ==
    \/ \E k \in Keys, v \in EncryptedValues : PutEncryptedAct(k, v, 0)
    \/ \E k \in Keys : GetDecryptedAct(k)
    \/ \E k \in Keys : GetAct(k)

SpecEncrypted == Init /\ [][NextEncrypted]_vars

\* C25: for every non-empty key k and text v, putEncrypted(k, v) followed by
\* getDecrypted(k) returns v and get(k) returns v as well; the entry stored
\* for k has encrypted = true and k is in the encrypted key set.
C25_EncryptedRoundTrip ==
    [][last'.op = "putEncrypted"
          => /\ ~last'.threw
             /\ getDecrypted(Eng', last'.key) = last'.value
             /\ get(Eng', now', last'.key).ret = last'.value
             /\ MapGet(store', last'.key).encrypted
             /\ last'.key \in encryptedKeys']_vars

\* ---------------------------------------------- encode, then decode (C26)
TextAh == Str(<<97, 104>>)                     \* "ah"
CodecValues == {TextX, TextRun, TextEmpty, TextAh}
CodecOptions ==
    {[ttl |-> 0, encrypted |-> e, compress |-> c] : e \in BOOLEAN, c \in BOOLEAN}

NextCodec ==
    \/ \E v \in CodecValues, o \in CodecOptions : PutAct(KeyA, v, o)
    \/ GetAct(KeyA)

SpecCodec == Init /\ [][NextCodec]_vars

NoDigit(text) == \A i \in 1..Len(text) : ~IsDigit(text[i])

\* C26: for each of the four combinations of encrypted and compress and every
\* text v without a digit, put(k, v, options) followed by get(k) returns v.
C26_CodecRoundTrip ==
    [][(last'.op = "put" /\ NoDigit(last'.value.s))
          => /\ ~last'.threw
             /\ get(Eng', now', last'.key).ret = last'.value]_vars

\* ------------------------------------------------------- rangeQuery (C27)
KeyD == <<100>>
RangeEnds == {KeyA, KeyB, KeyD, <<97, 98>>, <<>>}     \* "a", "b", "d", "ab", ""
Letters == {<<97>>, <<98>>, <<99>>, <<100>>, <<101>>}    \* "a" to "e"

NextRange ==
    \/ \E k \in QueryKeys : FreshPutAct(k, TextX)
    \/ \E start \in RangeEnds, end \in RangeEnds : RangeQueryAct(start, end)

SpecRange == Init /\ [][NextRange]_vars

\* the keys of the store from start to end, both included
InRange(start, end) ==
    {k \in MapKeys(store) : TextLeq(start, k) /\ TextLeq(k, end)}

\* C27: rangeQuery(start, end) returns exactly the keys k of the store with
\* start <= k <= end, each once, in ascending order; over the keys a to e,
\* rangeQuery('b', 'd') returns [b, c, d]; the result is empty when start > end.
C27_RangeQuery ==
    last.op = "rangeQuery" =>
        LET start == last.key
            end == last.value.s
            r == last.ret
        IN  /\ {r[i] : i \in 1..Len(r)} = InRange(start, end)
            /\ Len(r) = Cardinality(InRange(start, end))
            /\ \A i \in 1..Len(r), j \in 1..Len(r) : i < j => TextLess(r[i], r[j])
            /\ (MapKeys(store) = Letters /\ start = KeyB /\ end = KeyD)
                  => r = <<<<98>>, <<99>>, <<100>>>>
            /\ TextLess(end, start) => r = <<>>

\* rangeQuery('b', 'd') has run over the keys a to e, put in another order
C27_Witness ==
    /\ last.op = "rangeQuery"
    /\ last.key = KeyB
    /\ last.value.s = KeyD
    /\ MapKeys(store) = Letters
    /\ store[1].key = <<101>>
    /\ last.ret = <<<<98>>, <<99>>, <<100>>>>

\* ------------------------------------------------------- keysBySize (C28)
\* a text that JSON.stringify writes with size characters
Sized(size) == Str(Repeat(97, size - 2))
SizeValues == {Sized(10), Sized(50), Sized(30)}
SizeKeys == {<<97>>, <<98>>, <<99>>}               \* "a", "b", "c"

NextSize ==
    \/ \E k \in SizeKeys, v \in SizeValues : FreshPutAct(k, v)
    \/ \E limit \in 0..MaxLimit : KeysBySizeAct(limit)

SpecSize == Init /\ [][NextSize]_vars

\* the size of the value stored for k
SizeOf(k) == ValueSize(MapGet(store, k))

\* k comes before h in the ranking: it is larger, or as large and earlier in
\* the store
Ranks(k, h) ==
    \/ SizeOf(k) > SizeOf(h)
    \/ SizeOf(k) = SizeOf(h) /\ Idx(store, k) < Idx(store, h)

\* C28: keysBySize(limit) returns min(limit, number of keys) pairs {key, size},
\* those of the keys with the largest stored values, the largest first, keys
\* of equal size in the order of the store; over three keys with sizes 10, 50
\* and 30, keysBySize(2) returns the key of size 50, then the key of size 30.
C28_KeysBySize ==
    last.op = "keysBySize" =>
        LET r == last.ret
            limit == last.value.s[1]
            picked == {r[i].key : i \in 1..Len(r)}
        IN  /\ Len(r) = Min(limit, Len(store))
            /\ Cardinality(picked) = Len(r)
            /\ \A i \in 1..Len(r) :
                  Has(store, r[i].key) /\ r[i].size = SizeOf(r[i].key)
            /\ \A i \in 1..Len(r), j \in 1..Len(r) : i < j => Ranks(r[i].key, r[j].key)
            /\ \A k \in MapKeys(store) \ picked : \A h \in picked : Ranks(h, k)
            /\ ([i \in 1..Len(store) |-> SizeOf(store[i].key)] = <<10, 50, 30>> /\ limit = 2)
                  => r = <<[key |-> store[2].key, size |-> 50],
                           [key |-> store[3].key, size |-> 30]>>

\* keysBySize(2) has run over keys stored with sizes 10, 50 and 30
C28_Witness ==
    /\ last.op = "keysBySize"
    /\ last.value = Num(2)
    /\ Len(store) = 3
    /\ [i \in 1..3 |-> SizeOf(store[i].key)] = <<10, 50, 30>>
    /\ Len(last.ret) = 2
    /\ last.ret[1].size = 50

\* ----------------------------------------------- the running counters (C29)
NextStats ==
    \/ \E k \in Keys \cup {EmptyKey} : PutAct(k, TextX, NoOptions)
    \/ \E k \in Keys : CountedGetAct(k)
    \/ \E k \in Keys : DeleteAct(k)
    \/ ClearAct

SpecStats == InitCounted /\ [][NextStats]_vars

\* C29: since construction or the latest clear, getOps is the number of get
\* calls, putOps the number of successful puts, deleteOps the number of
\* deletes, totalOps = putOps + getOps + deleteOps, and cacheHits +
\* cacheMisses is the number of get calls. Stated call by call: every call
\* moves the counters by what it adds to these numbers.
C29_CountersCount ==
    [][/\ last'.op = "get"
             => /\ stats'.getOps = stats.getOps + 1
                /\ stats'.cacheHits + stats'.cacheMisses
                      = stats.cacheHits + stats.cacheMisses + 1
                /\ stats'.putOps = stats.putOps
                /\ stats'.deleteOps = stats.deleteOps
       /\ (last'.op = "put" /\ ~last'.threw)
             => /\ stats'.putOps = stats.putOps + 1
                /\ stats'.getOps = stats.getOps
                /\ stats'.deleteOps = stats.deleteOps
       /\ (last'.op = "put" /\ last'.threw) => stats' = stats
       /\ last'.op = "delete"
             => /\ stats'.deleteOps = stats.deleteOps + 1
                /\ stats'.putOps = stats.putOps
                /\ stats'.getOps = stats.getOps
       /\ last'.op = "clear" => stats' = ZeroStats
       /\ stats'.totalOps = stats'.putOps + stats'.getOps + stats'.deleteOps]_vars

\* -------------------------------------- the cache mirrors the store (C30)
MirrorOptions == [ttl |-> 1, encrypted |-> FALSE, compress |-> FALSE]

NextMirror ==
    \/ PutAct(KeyB, TextX, NoOptions)
    \/ PutAct(KeyA, TextY, MirrorOptions)
    \/ \E k \in Keys : GetAct(k)
    \/ DeleteAct(KeyA)
    \/ Tick
    \/ TimerAct

SpecMirror == InitSized /\ [][NextMirror]_vars

\* C30: with a capacity C >= 1 that stays as set, the cache holds at most C
\* keys, every key of the cache is a key of the store, and the entry cached
\* for a key is the entry the store holds for it.
C30_CacheMirrorsStore ==
    /\ Len(cache) <= cacheSize
    /\ Cardinality(MapKeys(cache)) = Len(cache)
    /\ \A i \in 1..Len(cache) :
          /\ Has(store, cache[i].key)
          /\ MapGet(store, cache[i].key) = cache[i].entry

\* the cache is full and the store holds a key more, after a read that
\* brought an entry with an expiry time back into the cache
C30_Witness ==
    /\ last.op = "get"
    /\ last.ok
    /\ Len(cache) = cacheSize
    /\ Len(store) = cacheSize + 1
    /\ cache[Len(cache)].key = KeyA
    /\ cache[Len(cache)].entry.expiry > 0

\* ------------------------------------------- get of an expired entry (C31)
ExpiringOptions == [ttl |-> 1, encrypted |-> TRUE, compress |-> FALSE]

NextExpired ==
    \/ PutAct(KeyA, TextX, ExpiringOptions)
    \/ PutAct(KeyB, TextY, NoOptions)
    \/ \E k \in Keys : GetAct(k)
    \/ Tick
    \/ TimerAct

SpecExpired == InitSized /\ [][NextExpired]_vars

\* the store holds an entry for k whose expiry time has passed
Overdue(k) == Has(store, k) /\ Expired(MapGet(store, k), now)

\* C31: get(k) of a key whose entry's expiry time has passed returns null and
\* removes k from the store, the cache and the encrypted key set, whether the
\* entry was found in the cache or only in the store; get never returns the
\* decoded value of an expired entry.
C31_GetExpired ==
    [][(last'.op = "get" /\ Overdue(last'.key))
          => /\ last'.ret = Null
             /\ ~last'.ok
             /\ ~Has(store', last'.key)
             /\ ~Has(cache', last'.key)
             /\ last'.key \notin encryptedKeys']_vars

\* a get has removed an expired encrypted entry that was in the store only:
\* the cache of one key holds the other key
C31_Witness ==
    /\ last.op = "get"
    /\ last.key = KeyA
    /\ last.ret = Null
    /\ cacheSize = 1
    /\ Has(cache, KeyB)
    /\ wal # <<>>
    /\ wal[Len(wal)].op = "DELETE"
    /\ wal[Len(wal)].timestamp > MsPerSecond
    /\ KeyA \notin encryptedKeys

\* ------------------------------------------ queries and expiry (C32, C33)
KeyAb == <<97, 98>>                            \* "ab"
PatternA == <<94, 97>>                         \* '^a'
GlobA == <<97, 42>>                            \* 'a*'

NextQuery ==
    \/ PutAct(KeyA, TextX, MirrorOptions)
    \/ PutAct(KeyAb, TextY, NoOptions)
    \/ Tick
    \/ TimerAct
    \/ PrefixSearchAct(KeyA)
    \/ RegexSearchAct(PatternA)
    \/ RangeQueryAct(KeyA, KeyB)
    \/ KeysBySizeAct(MaxLimit)
    \/ \E pattern \in {TextStar, GlobA} : KeysAct(pattern)
    \/ ScanStartAct(MaxCount, GlobA)

SpecQuery == Init /\ [][NextQuery]_vars

QueryOps == {"prefixSearch", "regexSearch", "rangeQuery", "keysBySize", "keys", "scan"}

\* the keys a query has returned
Returned(call) ==
    CASE call.op = "keysBySize" -> {call.ret[i].key : i \in 1..Len(call.ret)}
      [] call.op = "scan" -> {call.ret.keys[i] : i \in 1..Len(call.ret.keys)}
      [] OTHER -> {call.ret[i] : i \in 1..Len(call.ret)}

\* C32: prefixSearch, regexSearch, rangeQuery, keysBySize, keys and scan are
\* read-only and do not enforce expiry: each returns every matching key that
\* is in the store, the keys whose expiry time has passed included (here
\* every key of the store matches), and none changes the store, the cache,
\* the encrypted key set or the write log.
C32_QueriesReadOnly ==
    [][last'.op \in QueryOps
          => /\ Returned(last') = MapKeys(store)
             /\ UNCHANGED <<store, cache, encryptedKeys, wal>>]_vars

\* a query has returned a key whose expiry time has passed
C32_Witness ==
    /\ last.op \in QueryOps
    /\ Overdue(KeyA)
    /\ KeyA \in Returned(last)
    /\ Len(store) = 2

NextDecrypt ==
    \/ PutAct(KeyA, TextX, ExpiringOptions)
    \/ PutAct(KeyA, TextY, MirrorOptions)
    \/ Tick
    \/ TimerAct
    \/ GetDecryptedAct(KeyA)
    \/ CountedGetAct(KeyA)

SpecDecrypt == InitCounted /\ [][NextDecrypt]_vars

\* C33: getDecrypted(k) ignores expiry and the cache: for an entry of the
\* store whose expiry time has passed it returns the value (decrypted when
\* the entry is encrypted), not null, although get(k) returns null; it
\* deletes nothing and changes neither the store, the cache, the encrypted
\* key set, the write log nor the counters.
C33_GetDecryptedIgnoresExpiry ==
    [][last'.op = "getDecrypted"
          => /\ UNCHANGED <<store, cache, encryptedKeys, wal, stats>>
             /\ Overdue(last'.key)
                   => /\ last'.ret = ref[last'.key].value
                      /\ get(Eng, now, last'.key).ret = Null]_vars

\* getDecrypted has returned the text of an encrypted entry whose expiry time
\* has passed, after reads were counted
C33_Witness ==
    /\ last.op = "getDecrypted"
    /\ Overdue(KeyA)
    /\ MapGet(store, KeyA).encrypted
    /\ last.ret = TextX
    /\ stats.totalOps > 1

\* ---------------------------------------- put replaces the entry (C34)
ReplaceValues == {TextX, TextRun}
ReplaceOptions ==
    {NoOptions, ExpiringOptions, [ttl |-> 0, encrypted |-> FALSE, compress |-> TRUE]}

NextReplace ==
    \/ \E v \in ReplaceValues, o \in ReplaceOptions : PutAct(KeyA, v, o)
    \/ GetAct(KeyA)
    \/ ExistsAct(KeyA)
    \/ Tick

SpecReplace == Init /\ [][NextReplace]_vars

\* the entry that v and options alone determine, written at time at
\* (encrypt first, then compress)
EntryFrom(v, options, at) ==
    LET encoded == IF options.encrypted THEN encrypt(v.s) ELSE v.s
    IN  [value |-> Str(IF options.compress THEN compress(encoded) ELSE encoded),
         timestamp |-> at,
         encrypted |-> options.encrypted,
         compressed |-> options.compress,
         expiry |-> IF options.ttl > 0 THEN at + options.ttl * MsPerSecond ELSE 0]

\* C34: a put over an existing entry of k replaces it: value, expiry time,
\* encrypted and compressed of the new entry are those that v2 and options2
\* determine; a put without ttl over an entry with a ttl leaves an entry
\* without expiry time, which get and exists find at any later time.
C34_PutReplaces ==
    [][(last'.op = "put" /\ ~last'.threw /\ Has(store, last'.key))
          => /\ MapGet(store', last'.key) = EntryFrom(last'.value, last'.options, now')
             /\ last'.options.ttl = 0
                   => \A t \in {now', Horizon + MsPerSecond} :
                         /\ get(Eng', t, last'.key).ret = last'.value
                         /\ exists(Eng', t, last'.key).ok]_vars

\* a put without ttl has replaced an encrypted entry that had one, after the
\* first second
C34_Witness ==
    /\ last.op = "put"
    /\ last.options = NoOptions
    /\ Len(wal) >= 2
    /\ wal[Len(wal) - 1].options = ExpiringOptions
    /\ wal[Len(wal) - 1].key = KeyA
    /\ now > 0
    /\ MapGet(store, KeyA).expiry = 0
    /\ ~MapGet(store, KeyA).encrypted

\* ------------------------------------- batch and single calls (C35)
\* the call the client makes in place of one operation of a list: put(key,
\* value, {ttl}), get(key), delete(key) or exists(key); no call for any other
\* operation name
SingleCall(s, at, op) ==
    CASE op.op = "PUT" ->
            put(s, at, op.key, op.value,
                [ttl |-> op.ttl, encrypted |-> FALSE, compress |-> FALSE])
      [] op.op = "GET" -> get(s, at, op.key)
      [] op.op = "DELETE" -> delete(s, at, op.key)
      [] op.op = "EXISTS" -> exists(s, at, op.key)
      [] OTHER -> Result(s, Null, FALSE, FALSE)

RECURSIVE SingleCalls(_, _, _, _)
\* the single calls of a list made one after another: the engine they leave
\* and what each of them returned
SingleCalls(s, at, ops, returned) ==
    IF ops = <<>> THEN [s |-> s, returned |-> returned]
    ELSE LET r == SingleCall(s, at, Head(ops))
         IN  SingleCalls(r.s, at, Tail(ops), Append(returned, r))

\* C35: a batch in which no operation throws leaves the store, the cache, the
\* encrypted key set and the write log as the single calls put(key, value,
\* {ttl}), get(key), delete(key), exists(key) made in the order of the list
\* leave them, and its results carry what those calls return.
C35_BatchAsSingleCalls ==
    [][(last'.op = "batch" /\ last'.ok) =>
          LET single == SingleCalls(Eng, now, last'.ops, <<>>)
          IN  /\ store' = single.s.store
              /\ cache' = single.s.cache
              /\ encryptedKeys' = single.s.encryptedKeys
              /\ wal' = single.s.wal
              /\ Len(last'.results) = Len(last'.ops)
              /\ \A i \in 1..Len(last'.ops) :
                    CASE last'.ops[i].op = "GET" ->
                            last'.results[i].value = single.returned[i].ret
                      [] last'.ops[i].op = "EXISTS" ->
                            last'.results[i].exists = single.returned[i].ok
                      [] last'.ops[i].op \in {"PUT", "DELETE"} ->
                            last'.results[i].success = single.returned[i].ok
                      [] OTHER -> ~last'.results[i].success]_vars

\* a batch of a put with a ttl, a read and a delete of the same key has
\* returned, over a store that held the other key
C35_Witness ==
    /\ last.op = "batch" /\ last.ok
    /\ last.ops = <<BatchOp("PUT", KeyA, TextY, 1), BatchOp("GET", KeyA, Undefined, 0),
                    BatchOp("DELETE", KeyA, Undefined, 0)>>
    /\ last.results[2].value = TextY
    /\ last.results[3].success
    /\ timers # <<>>
    /\ Len(wal) = 2

\* ------------------------------------ the write log as a trace (C36)
TraceBatch == <<BatchOp("PUT", KeyA, TextY, 0), BatchOp("DELETE", KeyA, Undefined, 0)>>

NextTrace ==
    \/ PutAct(KeyA, TextX, MirrorOptions)
    \/ PutAct(EmptyKey, TextX, NoOptions)
    \/ DeleteAct(KeyA)
    \/ GetAct(KeyA)
    \/ Tick
    \/ TimerAct
    \/ BatchAct(TraceBatch)
    \/ ImportAct(DocOne, "json")
    \/ ClearAct

SpecTrace == Init /\ [][NextTrace]_vars

RECURSIVE Replay(_, _)
\* the map after the records of a log are applied to m in order: PUT sets
\* the key to the recorded value, DELETE removes the key
Replay(log, m) ==
    IF log = <<>> THEN m
    ELSE Replay(Tail(log),
                IF Head(log).op = "PUT"
                THEN MapSet(m, Head(log).key, [value |-> Head(log).value])
                ELSE MapDelete(m, Head(log).key))

NextStale ==
    \/ \E o \in {NoOptions, MirrorOptions} : PutAct(KeyA, TextX, o)
    \/ ClearAct
    \/ Tick
    \/ TimerAct

SpecStale == Init /\ [][NextStale]_vars

DeleteRecord(k, at) ==
    [timestamp |-> at, op |-> "DELETE", key |-> k, value |-> Undefined,
     options |-> NoOptions]

\* C37: clear cancels no pending timer; a timer scheduled by a put before the
\* clear fires after it, appends a DELETE record of its key to the write log
\* and removes the entry of that key, whichever put wrote it.
C37_TimersOutliveClear ==
    [][/\ last'.op = "clear" => (timers' = timers /\ wal' = <<>>)
       /\ last'.op = "timer" =>
             /\ wal' = Append(wal, DeleteRecord(last'.key, now))
             /\ ~Has(store', last'.key)
             /\ last'.ok = Has(store, last'.key)]_vars

\* the log holds only a put without a ttl and the DELETE of a timer that
\* removed its entry: the timer is of a put that came before the clear
C37_Witness ==
    /\ last.op = "timer"
    /\ last.ok
    /\ Len(wal) = 2
    /\ wal[1].op = "PUT" /\ wal[1].key = KeyA /\ wal[1].options.ttl = 0
    /\ wal[2] = DeleteRecord(KeyA, now)
    /\ ~Has(store, KeyA)

\* ---------------------------------- restored entries past their expiry (C38)
NextReload ==
    \/ PutAct(KeyA, TextX, MirrorOptions)
    \/ RestartAct
    \/ Tick
    \/ TimerAct
    \/ GetAct(KeyA)
    \/ ExistsAct(KeyA)
    \/ KeysAct(TextStar)
    \/ PrefixSearchAct(KeyA)

SpecReload == Init /\ [][NextReload]_vars

\* C38: loading the persisted item sets no timer: an entry restored with an
\* expiry stays in the store after its expiry has passed and is among the
\* keys the queries return, until a get or an exists of its key (or a delete
\* or a clear) removes it.
C38_RestoredOutlivesExpiry ==
    [][/\ last'.op = "restart" => (timers' = <<>> /\ store' = store)
       /\ (timers = <<>> /\ Has(store, KeyA) /\ ~Has(store', KeyA))
             => last'.op \in {"get", "exists", "delete", "clear"}
       /\ last'.op \in QueryOps => Returned(last') = MapKeys(store')]_vars

\* no timer is pending, the entry is a second or more past its expiry and a
\* query has just returned its key
C38_Witness ==
    /\ timers = <<>>
    /\ Overdue(KeyA)
    /\ now >= MapGet(store, KeyA).expiry + MsPerSecond
    /\ last.op \in {"keys", "prefixSearch"}
    /\ Returned(last) = {KeyA}

\* ------------------------------- expiry across export and import (C39)
TripOptions == {[ttl |-> t, encrypted |-> FALSE, compress |-> FALSE] : t \in 1..MaxTTL}

NextTrip ==
    \/ \E o \in TripOptions : PutAct(KeyA, TextX, o)
    \/ Tick
    \/ TimerAct
    \/ \E f \in {"csv", "json"} : RestoreAct(f)

SpecTrip == Init /\ [][NextTrip]_vars

\* the ttl export writes for an entry that has an expiry
Remaining(entry, at) ==
    IF entry.expiry - at < 0 THEN 0 ELSE (entry.expiry - at) \div MsPerSecond

\* the keys of m whose entry has an expiry and r or more seconds left
Lasting(m, at, r) ==
    {k \in MapKeys(m) :
        MapGet(m, k).expiry # 0 /\ Remaining(MapGet(m, k), at) >= r}

\* what export followed by import makes of the entries that have an expiry,
\* for the formats of F
TripKeepsTtl(F) ==
    (last'.op = "restore" /\ last'.format \in F)
       => /\ \A k \in Lasting(store, now, 0) :
                /\ Has(store', k)
                /\ MapGet(store', k).expiry =
                      IF Remaining(MapGet(store, k), now) = 0 THEN 0
                      ELSE now + Remaining(MapGet(store, k), now) * MsPerSecond
          /\ Len(timers') = Len(timers) + Cardinality(Lasting(store, now, 1))

\* C39: export followed by import re-creates an entry that has an expiry and
\* a remaining ttl of 0 as an entry without expiry and without timer, and an
\* entry with a remaining ttl of r >= 1 seconds with the expiry now + r
\* seconds.
C39_ExportImportTtl == [][TripKeepsTtl({"csv", "json"})]_vars

\* ------------------------------------ a put of a key in the cache (C40)
NextRecache ==
    \/ \E k \in CacheKeys, v \in {TextX, TextY} : PutAct(k, v, NoOptions)
    \/ \E k \in CacheKeys : GetAct(k)

SpecRecache == InitSized /\ [][NextRecache]_vars

\* C40: a put of a key that is in the cache evicts no key: the cache holds
\* the same keys afterwards, in the same order of eviction.
C40_RecacheKeepsOrder ==
    [][(last'.op = "put" /\ ~last'.threw /\ Has(cache, last'.key))
          => KeyOrder(cache') = KeyOrder(cache)]_vars

====
